---- MODULE Spec2Model ----
(***************************************************************************)
(* Verification model of the metrics backend: the grain resolver, the      *)
(* catalog resolver, the CSV ingestion pipeline (upload_metrics_csv) and   *)
(* the query paths, and of the dashboard requests of the visuals backend,  *)
(* over a PostgreSQL store at its default READ COMMITTED isolation level.  *)
(***************************************************************************)
EXTENDS Integers, Sequences, FiniteSets, TLC

VARIABLES
    db,     \* committed contents of the seven tables of schema "metrics"
    up,     \* one record per upload request slot: position, file, uncommitted writes
    rd,     \* the read (query) request: position, payload, intermediate results
    hist,   \* history of the run: uploads started, rows resolved by committed uploads
    gr,     \* arguments and result of one _select_source_grain call
    dash    \* the visuals backend: its two tables, its open requests, its last response

vars == <<db, up, rd, hist, gr, dash>>

(***************************************************************************)
(* Bounds of the model                                                     *)
(***************************************************************************)
\* Upload requests in one run.
MaxUploads == 2

\* Data rows in one uploaded file.
MaxRows == 2

(***************************************************************************)
(* Generic helpers                                                         *)
(***************************************************************************)
Range(s) == {s[i] : i \in 1..Len(s)}

Max(S) == CHOOSE x \in S : \A y \in S : y <= x

Min(S) == CHOOSE x \in S : \A y \in S : x <= y

\* Position of the first occurrence of e in sequence s (0 when absent).
IndexOf(s, e) == IF e \in Range(s) THEN Min({i \in 1..Len(s) : s[i] = e}) ELSE 0

\* list(dict.fromkeys(s)): drop repeated elements, keep first-occurrence order.
RECURSIVE DictFromKeys(_)
DictFromKeys(s) ==
    IF s = <<>> THEN <<>>
    ELSE LET n == Len(s)
             init == DictFromKeys(SubSeq(s, 1, n - 1))
         IN IF s[n] \in Range(init) THEN init ELSE Append(init, s[n])

(***************************************************************************)
(* Grain resolver: app/db/helpers.py                                       *)
(***************************************************************************)
GRAIN_ORDER == <<"30m", "hour", "day", "week", "biweek", "month", "quarter">>

Grains == Range(GRAIN_ORDER)

\* Rank used for a grain that is not in GRAIN_RANK: GRAIN_RANK.get(g, 999).
UnknownGrainRank == 999

\* str.strip().lower() on the grain spellings of the model.
normalize_grain(grain) ==
    CASE grain = "Day" -> "day"
      [] grain = " week " -> "week"
      [] grain = "MONTH" -> "month"
      [] OTHER -> grain

\* GRAIN_RANK = {grain: idx for idx, grain in enumerate(GRAIN_ORDER)}, read with .get(g, 999)
GRAIN_RANK(grain) ==
    IF grain \in Grains THEN IndexOf(GRAIN_ORDER, grain) - 1 ELSE UnknownGrainRank

is_supported_grain(grain) == normalize_grain(grain) \in Grains

\* A plausible slip: candidates restricted to grains strictly finer than the request.
select_source_grain_strict(grains, requested_grain) ==
    IF grains = {} THEN requested_grain
    ELSE LET requested_rank == GRAIN_RANK(normalize_grain(requested_grain))
             ranked == {<<GRAIN_RANK(normalize_grain(g)), g>> : g \in grains}
             candidates == {pair \in ranked : pair[1] < requested_rank}
         IN IF candidates # {}
            THEN (CHOOSE pair \in candidates : \A o \in candidates : o[1] <= pair[1])[2]
            ELSE (CHOOSE pair \in ranked : \A o \in ranked : pair[1] <= o[1])[2]

\* A plausible slip: min() where max() is meant, so the finest candidate is chosen.
select_source_grain_finest(grains, requested_grain) ==
    IF grains = {} THEN requested_grain
    ELSE LET requested_rank == GRAIN_RANK(normalize_grain(requested_grain))
             ranked == {<<GRAIN_RANK(normalize_grain(g)), g>> : g \in grains}
             candidates == {pair \in ranked : pair[1] <= requested_rank}
         IN IF candidates # {}
            THEN (CHOOSE pair \in candidates : \A o \in candidates : pair[1] <= o[1])[2]
            ELSE (CHOOSE pair \in ranked : \A o \in ranked : pair[1] <= o[1])[2]

\* _select_source_grain(grains, requested_grain)
select_source_grain(grains, requested_grain) ==
    IF grains = {} THEN requested_grain
    ELSE LET requested_rank == GRAIN_RANK(normalize_grain(requested_grain))
             ranked == {<<GRAIN_RANK(normalize_grain(g)), g>> : g \in grains}
             candidates == {pair \in ranked : pair[1] <= requested_rank}
         IN IF candidates # {}
            THEN (CHOOSE pair \in candidates : \A o \in candidates : o[1] <= pair[1])[2]
            ELSE (CHOOSE pair \in ranked : \A o \in ranked : pair[1] <= o[1])[2]

(***************************************************************************)
(* The store: schema "metrics" (alembic 0004_rebuild_metrics_schema.py).   *)
(* A table is a set of rows; a row is a record.                            *)
(***************************************************************************)
EmptyDb ==
    [ metric_definition |-> {}, dimension_definition |-> {}, dimension_value |-> {},
      dimension_set |-> {}, dimension_set_value |-> {}, metric_series |-> {},
      metric_observation |-> {} ]

Tables ==
    {"metric_definition", "dimension_definition", "dimension_value", "dimension_set",
     "dimension_set_value", "metric_series", "metric_observation"}

\* Tables with an identity column, and the name of that column.
IdentityColumn ==
    [ metric_definition |-> "metric_id", dimension_definition |-> "dimension_id",
      dimension_value |-> "value_id", dimension_set |-> "set_id",
      metric_series |-> "series_id", metric_observation |-> "observation_id" ]

\* The upload request slots; a slot runs one upload transaction at a time.
Slots == {1, 2}

\* Positions of an upload between its first store statement and its commit.
WritePcs ==
    {"metric_definition", "dimension_definition", "dimension_value", "dimension_set",
     "dimension_set_value", "metric_series", "metric_observation", "commit"}

Active(u) == up[u].pc \in WritePcs

\* Identity column values taken so far in table T, committed or not.
TakenIds(T) ==
    {r[IdentityColumn[T]] : r \in db[T] \cup UNION {up[u].ins[T] : u \in Slots}}

\* sa.Identity(): the k-th row a statement inserts into T gets a fresh, larger id.
FreshId(T, k) == Max(TakenIds(T) \cup {0}) + k

\* What a statement of transaction t reads under READ COMMITTED: the rows committed
\* when the statement runs, with t's own uncommitted updates and inserts applied.
View(t, T) ==
    IF T \in DOMAIN up[t].upd
    THEN LET col == IdentityColumn[T]
             changed == {r[col] : r \in up[t].upd[T]}
         IN {r \in db[T] : r[col] \notin changed} \cup up[t].upd[T] \cup up[t].ins[T]
    ELSE db[T] \cup up[t].ins[T]

NoWrites == EmptyDb

NoUpdates == [metric_definition |-> {}, dimension_definition |-> {}]

(***************************************************************************)
(* Upload files: pd.read_csv of the payload.  A file has the reserved      *)
(* columns and, in file order, its dimension columns; a row has one cell   *)
(* per dimension column.  "" is a blank cell (pd.NA after normalisation).  *)
(***************************************************************************)
NA == ""

\* Lexicographic order of the dimension keys and metric keys of the model:
\* the order sorted() and DataFrame.groupby() produce.
DimKeyOrder == <<"a", "b", "country", "plan">>

MetricKeyOrder == <<"m1", "m2", "signups">>

\* dimension_key.replace("_", " ").title()
DimensionName(dimension_key) ==
    CASE dimension_key = "country" -> "Country"
      [] dimension_key = "plan" -> "Plan"
      [] dimension_key = "a" -> "A"
      [] dimension_key = "b" -> "B"
      [] OTHER -> dimension_key

\* REQUIRED_UPLOAD_COLUMNS: the reserved columns, all of which the header must carry.
REQUIRED_UPLOAD_COLUMNS ==
    {"metric_key", "metric_name", "metric_description", "metric_type", "unit",
     "directionality", "aggregation", "grain", "time_start_ts", "time_end_ts",
     "value_num", "sample_size", "is_estimated"}

\* REQUIRED_UPLOAD_VALUES: the columns no row may leave blank; time_start_ts is a
\* timestamp in every row of the model.
REQUIRED_UPLOAD_VALUES ==
    {"metric_key", "metric_name", "metric_type", "aggregation", "grain", "value_num"}

\* An optional cell that is blank: no time_end_ts (pd.NaT), as a timestamp.
NoTime == 0

\* pd.to_numeric(errors="coerce") on the value_num spellings of the model; -1 is NaN.
NaN == -1

ToNumeric(raw) ==
    CASE raw = "5" -> 5
      [] raw = "7" -> 7
      [] OTHER -> NaN

\* pd.to_numeric on the sample_size spellings of the model: the number in halves
\* (so that -0.5 is -1), or unparsable.
SampleSizeSpellings == {"10", "-3", "-0.5", "many"}

sample_size_parses(raw) == raw \in {"10", "-3", "-0.5"}

sample_size_halves(raw) ==
    CASE raw = "10" -> 20
      [] raw = "-3" -> -6
      [] raw = "-0.5" -> -1
      [] OTHER -> 0

\* int(sample_size_value): truncation toward zero.
int_of_halves(h) == IF h >= 0 THEN h \div 2 ELSE -((-h) \div 2)

\* The subsequence of the globally ordered keys that occur in s: sorted(s) for a
\* sequence s of distinct keys.
SortedBy(order, s) == SelectSeq(order, LAMBDA k : k \in Range(s))

\* Rows of the file, as indices.
RowIdx(file) == 1..Len(file.rows)

\* df.groupby("metric_key"): the distinct metric keys, sorted.
GroupKeys(file) ==
    SortedBy(MetricKeyOrder, [i \in RowIdx(file) |-> file.rows[i].metric_key])

\* str.strip() on the cell spellings of the model.
str_strip(raw) ==
    CASE raw = " " -> ""
      [] raw = "Signups " -> "Signups"
      [] raw = " Gauge " -> "Gauge"
      [] raw = "usd " -> "usd"
      [] raw = " a count" -> "a count"
      [] OTHER -> raw

\* str.lower() on the cell spellings of the model.
str_lower(raw) ==
    CASE raw = "Gauge" -> "gauge"
      [] raw = "SUM" -> "sum"
      [] raw = "Max" -> "max"
      [] raw = "AVG" -> "avg"
      [] raw = "Up" -> "up"
      [] OTHER -> raw

\* Lines 463-471: the catalog cell as the grouping sees it; metric_type, aggregation
\* and directionality are stripped and lowered, the other fields stripped.
normalize_field(field, raw) ==
    IF field \in {"metric_type", "aggregation", "directionality"}
    THEN str_lower(str_strip(raw))
    ELSE str_strip(raw)

\* A plausible slip: the first non-blank value is taken, a second one never raises.
unique_field_first(file, metric_key, field, required) ==
    LET idx == {i \in RowIdx(file) : file.rows[i].metric_key = metric_key}
        values == {normalize_field(field, file.rows[i][field]) : i \in idx} \ {NA}
    IN IF required /\ values = {} THEN [err |-> "missing", value |-> NA]
       ELSE IF values = {} THEN [err |-> "ok", value |-> NA]
       ELSE [err |-> "ok",
             value |-> normalize_field(field,
                           file.rows[Min({i \in idx :
                               normalize_field(field, file.rows[i][field]) # NA})][field])]

\* _unique_field(group, field, metric_key, required=..., lower=...): the single
\* non-blank value of the field over the rows of one metric key, or an error.
unique_field(file, metric_key, field, required) ==
    LET idx == {i \in RowIdx(file) : file.rows[i].metric_key = metric_key}
        values == {normalize_field(field, file.rows[i][field]) : i \in idx} \ {NA}
    IN IF Cardinality(values) > 1 THEN [err |-> "conflicting", value |-> NA]
       ELSE IF required /\ values = {} THEN [err |-> "missing", value |-> NA]
       ELSE IF values = {} THEN [err |-> "ok", value |-> NA]
       ELSE [err |-> "ok", value |-> CHOOSE v \in values : TRUE]

\* metric_rows: one catalog row per metric key of the file.
metric_rows(file) ==
    LET keys == GroupKeys(file)
    IN [i \in 1..Len(keys) |->
           [ metric_key |-> keys[i],
             metric_name |-> unique_field(file, keys[i], "metric_name", TRUE).value,
             aggregation |-> unique_field(file, keys[i], "aggregation", TRUE).value ]]

\* Everything upload_metrics_csv checks before it opens the write phase; "ok" or the
\* detail of the 400 response.
ValidateUpload(file) ==
    IF ~(REQUIRED_UPLOAD_COLUMNS \subseteq file.reserved)
    THEN "missing required columns"
    ELSE IF \E i \in RowIdx(file) :
          \E c \in REQUIRED_UPLOAD_VALUES : str_strip(file.rows[i][c]) = NA
    THEN "required value missing"
    ELSE IF \E i \in RowIdx(file) : ~is_supported_grain(file.rows[i].grain)
    THEN "unsupported grain(s)"
    ELSE IF \E i \in RowIdx(file) :
               /\ file.rows[i].time_end_ts # NoTime
               /\ file.rows[i].time_end_ts <= file.rows[i].time_start_ts
    THEN "time_end_ts must be after time_start_ts"
    ELSE IF \E i \in RowIdx(file) : ToNumeric(file.rows[i].value_num) = NaN
    THEN "invalid value_num values"
    ELSE IF \E i \in RowIdx(file) :
               file.rows[i].sample_size # NA /\ ~sample_size_parses(file.rows[i].sample_size)
    THEN "invalid sample_size values"
    ELSE IF \E k \in Range(GroupKeys(file)) :
               \/ \E c \in {"metric_name", "metric_type", "aggregation"} :
                      unique_field(file, k, c, TRUE).err # "ok"
               \/ \E c \in {"metric_description", "unit", "directionality"} :
                      unique_field(file, k, c, FALSE).err # "ok"
    THEN "conflicting or missing catalog field"
    ELSE "ok"

\* The (dimension_key, value) pairs of row i, in column order, blank cells skipped.
RowPairs(file, i) ==
    LET cols == file.cols
        keep == SelectSeq([j \in 1..Len(cols) |-> j],
                          LAMBDA j : file.rows[i].cells[j] # NA)
    IN [n \in 1..Len(keep) |->
           [key |-> cols[keep[n]], value |-> file.rows[i].cells[keep[n]]]]

\* A plausible slip: the pairs are hashed in column order, unsorted.
pairs_unsorted(pairs) == pairs

\* sorted(pairs, key=lambda item: item[0]); the keys of one row are distinct.
pairs_sorted(pairs) ==
    LET keys == SortedBy(DimKeyOrder, [n \in 1..Len(pairs) |-> pairs[n].key])
    IN [n \in 1..Len(keys) |->
           pairs[CHOOSE m \in 1..Len(pairs) : pairs[m].key = keys[n]]]

RECURSIVE JoinPairs(_)
JoinPairs(pairs) ==
    IF pairs = <<>> THEN ""
    ELSE IF Len(pairs) = 1 THEN pairs[1].key \o "=" \o pairs[1].value
    ELSE JoinPairs(SubSeq(pairs, 1, Len(pairs) - 1)) \o "|"
             \o pairs[Len(pairs)].key \o "=" \o pairs[Len(pairs)].value

\* _build_set_hash(pairs): SHA-256 of the payload "k=v|k=v"; the digest is
\* represented by its preimage (SHA-256 taken as injective).
build_set_hash(pairs) == JoinPairs(pairs)

\* set_hash of row i, as the row loop computes it.
RowSetHash(file, i) == build_set_hash(pairs_sorted(RowPairs(file, i)))

\* row_set_hashes
row_set_hashes(file) == [i \in RowIdx(file) |-> RowSetHash(file, i)]

\* The keys of the dict dimension_sets, in insertion order.
dimension_set_hashes(file) == DictFromKeys(row_set_hashes(file))

\* dimension_sets[set_hash]: the pairs of the first row that produced the hash.
dimension_set_pairs(file, set_hash) ==
    pairs_sorted(RowPairs(file, Min({i \in RowIdx(file) : RowSetHash(file, i) = set_hash})))

(***************************************************************************)
(* Store statements (sqlalchemy.dialects.postgresql.insert)                *)
(***************************************************************************)
\* The columns cols of row r: the key a unique constraint compares.
KeyOf(r, cols) == [c \in cols |-> r[c]]

HasKey(rows, r, cols) == \E x \in rows : KeyOf(x, cols) = KeyOf(r, cols)

\* INSERT ... VALUES rows with no ON CONFLICT clause under a unique constraint on
\* cols: every row is inserted, or the statement fails with a unique violation.
PlainInsert(view, rows, cols) ==
    IF \/ \E k \in 1..Len(rows) : HasKey(view, rows[k], cols)
       \/ \E k, m \in 1..Len(rows) : k < m /\ KeyOf(rows[k], cols) = KeyOf(rows[m], cols)
    THEN [rows |-> <<>>, err |-> TRUE]
    ELSE [rows |-> rows, err |-> FALSE]

\* INSERT ... ON CONFLICT (cols) DO NOTHING: the rows whose key is neither visible
\* nor inserted earlier by the same statement, in statement order.
RECURSIVE OnConflictDoNothingRows(_, _, _)
OnConflictDoNothingRows(view, rows, cols) ==
    IF rows = <<>> THEN <<>>
    ELSE LET n == Len(rows)
             init == OnConflictDoNothingRows(view, SubSeq(rows, 1, n - 1), cols)
         IN IF HasKey(view \cup Range(init), rows[n], cols) THEN init
            ELSE Append(init, rows[n])

OnConflictDoNothing(view, rows, cols) ==
    [rows |-> OnConflictDoNothingRows(view, rows, cols), err |-> FALSE]

\* An insert with no unique constraint behind it: every row is stored.
InsertUnchecked(view, rows, cols) == [rows |-> rows, err |-> FALSE]

\* The inserted rows with their identity column filled in.
WithIds(T, rows) ==
    {rows[k] @@ (IdentityColumn[T] :> FreshId(T, k)) : k \in 1..Len(rows)}

\* Transaction t has to wait before it can insert or update rows with these keys in
\* T: another open transaction holds an uncommitted row with one of the keys.
HeldRows(u, T) ==
    up[u].ins[T] \cup (IF T \in DOMAIN up[u].upd THEN up[u].upd[T] ELSE {})

WaitsFor(t, u, T, rows, cols) ==
    /\ u # t
    /\ Active(u)
    /\ \E k \in 1..Len(rows) : HasKey(HeldRows(u, T), rows[k], cols)

(***************************************************************************)
(* upload_metrics_csv: locals of one request                               *)
(***************************************************************************)
NoFile == [cols |-> <<>>, rows |-> <<>>, reserved |-> {}]

NoLocals ==
    [ metric_ids |-> {}, dimension_ids |-> {}, dimension_value_ids |-> {},
      set_ids |-> {}, series_ids |-> {} ]

NoResponse ==
    [ status |-> 0, detail |-> "", rows |-> 0, metrics_upserted |-> 0,
      dimensions_upserted |-> 0, dimension_values_inserted |-> 0,
      dimension_sets_inserted |-> 0, metric_series_inserted |-> 0,
      metric_observations_inserted |-> 0 ]

IdleUpload ==
    [ pc |-> "idle", file |-> NoFile, pre |-> EmptyDb, ins |-> NoWrites,
      upd |-> NoUpdates, cursor |-> 0, loc |-> NoLocals, resp |-> NoResponse,
      error |-> "none", failed_at |-> "none", wrote |-> FALSE, reupload |-> FALSE ]

Terminal == {"idle", "done", "rejected", "failed"}

metric_id_of(loc, metric_key) ==
    (CHOOSE r \in loc.metric_ids : r.metric_key = metric_key).metric_id

dimension_id_of(loc, dimension_key) ==
    (CHOOSE r \in loc.dimension_ids : r.dimension_key = dimension_key).dimension_id

value_id_of(loc, dimension_id, value) ==
    (CHOOSE r \in loc.dimension_value_ids :
        r.dimension_id = dimension_id /\ r.value = value).value_id

set_id_of(loc, set_hash) ==
    (CHOOSE r \in loc.set_ids : r.set_hash = set_hash).set_id

series_id_of(loc, metric_id, grain, set_id) ==
    (CHOOSE r \in loc.series_ids :
        r.metric_id = metric_id /\ r.grain = grain /\ r.set_id = set_id).series_id

\* dimension_rows
dimension_rows(file) ==
    [j \in 1..Len(file.cols) |->
        [dimension_key |-> file.cols[j], dimension_name |-> DimensionName(file.cols[j])]]

\* df[dimension_key].dropna() de-duplicated: the distinct non-blank cells of column j.
ColumnValues(file, j) ==
    DictFromKeys(SelectSeq([i \in RowIdx(file) |-> file.rows[i].cells[j]],
                           LAMBDA v : v # NA))

RECURSIVE Concat(_)
Concat(seqs) ==
    IF seqs = <<>> THEN <<>> ELSE Concat(SubSeq(seqs, 1, Len(seqs) - 1)) \o seqs[Len(seqs)]

\* dimension_value_rows
dimension_value_rows(file, loc) ==
    Concat([j \in 1..Len(file.cols) |->
        LET values == ColumnValues(file, j)
        IN [n \in 1..Len(values) |->
               [dimension_id |-> dimension_id_of(loc, file.cols[j]), value |-> values[n]]]])

\* set_value_rows
set_value_rows(file, loc) ==
    LET hashes == dimension_set_hashes(file)
    IN Concat([h \in 1..Len(hashes) |->
        LET pairs == dimension_set_pairs(file, hashes[h])
        IN [n \in 1..Len(pairs) |->
               LET dimension_id == dimension_id_of(loc, pairs[n].key)
               IN [ set_id |-> set_id_of(loc, hashes[h]),
                    dimension_id |-> dimension_id,
                    value_id |-> value_id_of(loc, dimension_id, pairs[n].value) ]]])

\* series_key of row i: (metric_id, grain, set_id)
series_key(file, loc, i) ==
    [ metric_id |-> metric_id_of(loc, file.rows[i].metric_key),
      grain |-> normalize_grain(file.rows[i].grain),
      set_id |-> set_id_of(loc, RowSetHash(file, i)) ]

\* series_rows: the series keys of the rows, first occurrence of each only.
series_rows(file, loc) ==
    DictFromKeys([i \in RowIdx(file) |-> series_key(file, loc, i)])

\* observation_rows
observation_rows(file, loc) ==
    [i \in RowIdx(file) |->
        LET key == series_key(file, loc, i)
        IN [ series_id |-> series_id_of(loc, key.metric_id, key.grain, key.set_id),
             time_start_ts |-> file.rows[i].time_start_ts,
             time_end_ts |-> IF file.rows[i].time_end_ts = NoTime THEN {}
                             ELSE {file.rows[i].time_end_ts},
             value_num |-> ToNumeric(file.rows[i].value_num),
             sample_size |-> IF file.rows[i].sample_size = NA THEN {}
                             ELSE {int_of_halves(sample_size_halves(
                                       file.rows[i].sample_size))} ]]

(***************************************************************************)
(* upload_metrics_csv: one action per store statement, each with the       *)
(* selects and the in-memory steps that feed it.                           *)
(***************************************************************************)
\* A plausible slip: the count reported is that of the rows handed to the statement.
rowcount_submitted(rows, res) == Len(rows)

\* result.rowcount or 0: the rows the statement inserted.
rowcount(rows, res) == Len(res.rows)

\* INSERT INTO dimension_value ... ON CONFLICT (dimension_id, value) DO NOTHING
insert_dimension_value_plain(view, rows) == PlainInsert(view, rows, {"dimension_id", "value"})

insert_dimension_value(view, rows) ==
    OnConflictDoNothing(view, rows, {"dimension_id", "value"})

\* INSERT INTO dimension_set ... ON CONFLICT (set_hash) DO NOTHING
insert_dimension_set(view, rows) == OnConflictDoNothing(view, rows, {"set_hash"})

\* INSERT INTO dimension_set_value ... ON CONFLICT (set_id, value_id) DO NOTHING
insert_dimension_set_value(view, rows) ==
    OnConflictDoNothing(view, rows, {"set_id", "value_id"})

\* INSERT INTO metric_series ... ON CONFLICT (metric_id, grain, set_id) DO NOTHING,
\* under uq_metric_series
insert_metric_series_unchecked(view, rows) ==
    InsertUnchecked(view, rows, {"metric_id", "grain", "set_id"})

insert_metric_series(view, rows) ==
    OnConflictDoNothing(view, rows, {"metric_id", "grain", "set_id"})

\* INSERT INTO metric_observation, no conflict clause, under uq_obs_series_time
insert_metric_observation_unchecked(view, rows) ==
    InsertUnchecked(view, rows, {"series_id", "time_start_ts"})

insert_metric_observation_ignore(view, rows) ==
    OnConflictDoNothing(view, rows, {"series_id", "time_start_ts"})

\* ck_obs_time_range and ck_obs_sample_nonneg on one row.
observation_checks(r) ==
    /\ \A e \in r.time_end_ts : e > r.time_start_ts
    /\ \A n \in r.sample_size : n >= 0

insert_metric_observation(view, rows) ==
    IF \E k \in 1..Len(rows) : ~observation_checks(rows[k])
    THEN [rows |-> <<>>, err |-> TRUE]
    ELSE PlainInsert(view, rows, {"series_id", "time_start_ts"})

\* The constraint the first row that cannot be stored runs into (the statement
\* takes its rows in order and checks a row before it enters the unique index).
observation_error(view, rows) ==
    LET bad == {k \in 1..Len(rows) : ~observation_checks(rows[k])}
    IN IF bad = {} THEN "unique_violation"
       ELSE IF \E k \in 1..(Min(bad) - 1) :
                  \/ HasKey(view, rows[k], {"series_id", "time_start_ts"})
                  \/ \E m \in 1..(k - 1) :
                         KeyOf(rows[m], {"series_id", "time_start_ts"})
                             = KeyOf(rows[k], {"series_id", "time_start_ts"})
       THEN "unique_violation"
       ELSE "check_violation"

\* Every table as transaction t sees it.
Merged(t) == [T \in Tables |-> View(t, T)]

\* A plausible slip: the failure path leaves the statements run so far committed.
RollbackKeepsWrites(t) == Merged(t)

\* session.rollback(): the committed store is what it was.
Rollback(t) == db

HasWrites(t) ==
    \/ \E T \in Tables : up[t].ins[T] # {}
    \/ \E T \in DOMAIN up[t].upd : up[t].upd[T] # {}

\* The request ends with an error raised inside the try block: rollback, re-raise.
Fail(t, err) ==
    /\ db' = Rollback(t)
    /\ up' = [up EXCEPT ![t] =
                 [IdleUpload EXCEPT !.pc = "failed", !.file = up[t].file,
                                    !.pre = up[t].pre, !.error = err,
                                    !.failed_at = up[t].pc, !.wrote = HasWrites(t),
                                    !.reupload = up[t].reupload,
                                    !.resp = [NoResponse EXCEPT !.status = 500,
                                                                !.detail = err]]]

\* POST /v1/metrics/upload arrives with file f, on a fresh session.
ReceiveUpload(t, f) ==
    /\ up[t].pc \in Terminal
    /\ hist.uploads < MaxUploads
    /\ up' = [up EXCEPT ![t] =
                 [IdleUpload EXCEPT !.pc = "validate", !.file = f, !.pre = db,
                                    !.reupload = f \in hist.accepted]]
    /\ hist' = [hist EXCEPT !.uploads = @ + 1]
    /\ UNCHANGED <<db, rd, gr, dash>>

\* Lines 442-557: parsing, normalisation and validation; no store statement yet.
Validate(t) ==
    /\ up[t].pc = "validate"
    /\ LET detail == ValidateUpload(up[t].file)
       IN up' = [up EXCEPT ![t] =
                    IF detail = "ok"
                    THEN [@ EXCEPT !.pc = "metric_definition"]
                    ELSE [@ EXCEPT !.pc = "rejected",
                                   !.resp = [NoResponse EXCEPT !.status = 400,
                                                               !.detail = detail]]]
    /\ UNCHANGED <<db, rd, hist, gr, dash>>

\* Lines 561-576: INSERT INTO metric_definition ... ON CONFLICT (metric_key) DO UPDATE
UpsertMetricDefinitions(t) ==
    /\ up[t].pc = "metric_definition"
    /\ LET file == up[t].file
           rows == metric_rows(file)
           view == View(t, "metric_definition")
           new == SelectSeq(rows, LAMBDA r : ~HasKey(view, r, {"metric_key"}))
           old == {r \in Range(rows) : HasKey(view, r, {"metric_key"})}
           updated ==
               {[ (CHOOSE x \in view : x.metric_key = r.metric_key)
                      EXCEPT !.metric_name = r.metric_name,
                             !.aggregation = r.aggregation ] : r \in old}
       IN /\ \A u \in Slots : ~WaitsFor(t, u, "metric_definition", rows, {"metric_key"})
          /\ up' = [up EXCEPT ![t] =
                       [@ EXCEPT !.pc = IF file.cols = <<>> THEN "dimension_value"
                                        ELSE "dimension_definition",
                                 !.cursor = 1,
                                 !.ins.metric_definition = WithIds("metric_definition", new),
                                 !.upd.metric_definition = updated,
                                 !.resp.metrics_upserted = Len(rows)]]
    /\ UNCHANGED <<db, rd, hist, gr, dash>>

\* Lines 578-584: INSERT INTO dimension_definition ... ON CONFLICT (dimension_key)
\* DO UPDATE; the statement takes its rows one at a time, in column order, and
\* keeps the rows it has passed locked while it waits for the next one.
UpsertDimensionDefinition(t) ==
    /\ up[t].pc = "dimension_definition"
    /\ LET file == up[t].file
           j == up[t].cursor
           row == dimension_rows(file)[j]
           view == View(t, "dimension_definition")
           exists == HasKey(view, row, {"dimension_key"})
           updated ==
               IF exists
               THEN {[ (CHOOSE x \in view : x.dimension_key = row.dimension_key)
                           EXCEPT !.dimension_name = row.dimension_name ]}
               ELSE {}
           inserted == IF exists THEN {} ELSE WithIds("dimension_definition", <<row>>)
       IN /\ \A u \in Slots :
                 ~WaitsFor(t, u, "dimension_definition", <<row>>, {"dimension_key"})
          /\ up' = [up EXCEPT ![t] =
                       [@ EXCEPT !.pc = IF j = Len(file.cols) THEN "dimension_value"
                                        ELSE "dimension_definition",
                                 !.cursor = j + 1,
                                 !.ins.dimension_definition = @ \cup inserted,
                                 !.upd.dimension_definition = @ \cup updated]]
    /\ UNCHANGED <<db, rd, hist, gr, dash>>

\* Lines 586-626: select the metric and dimension ids, build dimension_value_rows,
\* INSERT INTO dimension_value ... ON CONFLICT DO NOTHING.
InsertDimensionValues(t) ==
    /\ up[t].pc = "dimension_value"
    /\ LET file == up[t].file
           loc == [up[t].loc EXCEPT
                      !.metric_ids =
                          {r \in View(t, "metric_definition") :
                              r.metric_key \in Range(GroupKeys(file))},
                      !.dimension_ids =
                          {r \in View(t, "dimension_definition") :
                              r.dimension_key \in Range(file.cols)}]
           rows == dimension_value_rows(file, loc)
           res == insert_dimension_value(View(t, "dimension_value"), rows)
       IN /\ \A u \in Slots :
                 ~WaitsFor(t, u, "dimension_value", rows, {"dimension_id", "value"})
          /\ IF res.err THEN Fail(t, "unique_violation")
             ELSE /\ up' = [up EXCEPT ![t] =
                               [@ EXCEPT !.pc = "dimension_set",
                                         !.loc = loc,
                                         !.ins.dimension_value =
                                             WithIds("dimension_value", res.rows),
                                         !.resp.dimension_values_inserted = rowcount(rows, res)]]
                  /\ UNCHANGED db
    /\ UNCHANGED <<rd, hist, gr, dash>>

\* Lines 628-671: select the value ids, build dimension_sets and row_set_hashes,
\* INSERT INTO dimension_set ... ON CONFLICT (set_hash) DO NOTHING.
InsertDimensionSets(t) ==
    /\ up[t].pc = "dimension_set"
    /\ LET file == up[t].file
           wanted == Range(dimension_value_rows(file, up[t].loc))
           loc == [up[t].loc EXCEPT
                      !.dimension_value_ids =
                          {r \in View(t, "dimension_value") :
                              HasKey(wanted, r, {"dimension_id", "value"})}]
           hashes == dimension_set_hashes(file)
           rows == [h \in 1..Len(hashes) |-> [set_hash |-> hashes[h]]]
           res == insert_dimension_set(View(t, "dimension_set"), rows)
       IN /\ \A u \in Slots : ~WaitsFor(t, u, "dimension_set", rows, {"set_hash"})
          /\ IF res.err THEN Fail(t, "unique_violation")
             ELSE /\ up' = [up EXCEPT ![t] =
                               [@ EXCEPT !.pc = "dimension_set_value",
                                         !.loc = loc,
                                         !.ins.dimension_set =
                                             WithIds("dimension_set", res.rows),
                                         !.resp.dimension_sets_inserted = rowcount(rows, res)]]
                  /\ UNCHANGED db
    /\ UNCHANGED <<rd, hist, gr, dash>>

\* Lines 673-697: select the set ids, build set_value_rows,
\* INSERT INTO dimension_set_value ... ON CONFLICT (set_id, value_id) DO NOTHING.
InsertDimensionSetValues(t) ==
    /\ up[t].pc = "dimension_set_value"
    /\ LET file == up[t].file
           loc == [up[t].loc EXCEPT
                      !.set_ids =
                          {r \in View(t, "dimension_set") :
                              r.set_hash \in Range(dimension_set_hashes(file))}]
           rows == set_value_rows(file, loc)
           res == insert_dimension_set_value(View(t, "dimension_set_value"), rows)
       IN /\ \A u \in Slots :
                 ~WaitsFor(t, u, "dimension_set_value", rows, {"set_id", "value_id"})
          /\ IF res.err THEN Fail(t, "unique_violation")
             ELSE /\ up' = [up EXCEPT ![t] =
                               [@ EXCEPT !.pc = "metric_series",
                                         !.loc = loc,
                                         !.ins.dimension_set_value = Range(res.rows)]]
                  /\ UNCHANGED db
    /\ UNCHANGED <<rd, hist, gr, dash>>

\* Lines 699-724: build series_rows, INSERT INTO metric_series ... ON CONFLICT
\* (metric_id, grain, set_id) DO NOTHING.
InsertMetricSeries(t) ==
    /\ up[t].pc = "metric_series"
    /\ LET file == up[t].file
           rows == series_rows(file, up[t].loc)
           res == insert_metric_series(View(t, "metric_series"), rows)
       IN /\ \A u \in Slots :
                 ~WaitsFor(t, u, "metric_series", rows, {"metric_id", "grain", "set_id"})
          /\ IF res.err THEN Fail(t, "unique_violation")
             ELSE /\ up' = [up EXCEPT ![t] =
                               [@ EXCEPT !.pc = "metric_observation",
                                         !.ins.metric_series =
                                             WithIds("metric_series", res.rows),
                                         !.resp.metric_series_inserted = rowcount(rows, res)]]
                  /\ UNCHANGED db
    /\ UNCHANGED <<rd, hist, gr, dash>>

\* Lines 726-776: select the series ids, build observation_rows,
\* INSERT INTO metric_observation.
InsertObservations(t) ==
    /\ up[t].pc = "metric_observation"
    /\ LET file == up[t].file
           keys == Range(series_rows(file, up[t].loc))
           loc == [up[t].loc EXCEPT
                      !.series_ids =
                          {r \in View(t, "metric_series") :
                              /\ r.metric_id \in {k.metric_id : k \in keys}
                              /\ r.set_id \in {k.set_id : k \in keys}
                              /\ r.grain \in {k.grain : k \in keys}}]
           rows == observation_rows(file, loc)
           res == insert_metric_observation(View(t, "metric_observation"), rows)
       IN /\ \A u \in Slots :
                 ~WaitsFor(t, u, "metric_observation", rows, {"series_id", "time_start_ts"})
          /\ IF res.err
             THEN Fail(t, observation_error(View(t, "metric_observation"), rows))
             ELSE /\ up' = [up EXCEPT ![t] =
                               [@ EXCEPT !.pc = "commit",
                                         !.loc = loc,
                                         !.ins.metric_observation =
                                             WithIds("metric_observation", res.rows),
                                         !.resp.metric_observations_inserted =
                                             rowcount(rows, res)]]
                  /\ UNCHANGED db
    /\ UNCHANGED <<rd, hist, gr, dash>>

\* The set_id each row of the file was resolved to, with its pairs as a set.
ResolvedRows(t) ==
    {[ cols |-> up[t].file.cols,
       pairs |-> Range(RowPairs(up[t].file, i)),
       set_id |-> set_id_of(up[t].loc, RowSetHash(up[t].file, i)) ] :
         i \in RowIdx(up[t].file)}

\* Lines 778-791: session.commit() and the response.
Commit(t) ==
    /\ up[t].pc = "commit"
    /\ db' = Merged(t)
    /\ up' = [up EXCEPT ![t] =
                 [IdleUpload EXCEPT
                     !.pc = "done", !.file = up[t].file, !.pre = up[t].pre,
                     !.reupload = up[t].reupload, !.wrote = HasWrites(t),
                     !.resp = [up[t].resp EXCEPT
                                  !.status = 200,
                                  !.rows = Len(up[t].file.rows),
                                  !.dimensions_upserted = Len(dimension_rows(up[t].file))]]]
    /\ hist' = [hist EXCEPT !.accepted = @ \cup {up[t].file},
                            !.resolved = @ \cup ResolvedRows(t)]
    /\ UNCHANGED <<rd, gr, dash>>

\* The store fails a statement of the write phase, or the commit (StoreUnavailable).
StoreError(t) ==
    /\ up[t].pc \in WritePcs
    /\ Fail(t, "store_unavailable")
    /\ UNCHANGED <<rd, hist, gr, dash>>

(***************************************************************************)
(* Catalog and source-grain resolvers of a query request                   *)
(* (app/db/helpers.py), each applied to the table its statement reads.     *)
(***************************************************************************)
\* ", ".join(keys)
RECURSIVE JoinKeys(_)
JoinKeys(keys) ==
    IF keys = <<>> THEN ""
    ELSE IF Len(keys) = 1 THEN keys[1]
    ELSE JoinKeys(SubSeq(keys, 1, Len(keys) - 1)) \o ", " \o keys[Len(keys)]

\* A plausible slip: the 404 is raised only when no requested key is found.
resolve_metric_ids_partial(table, metric_keys) ==
    LET keys == DictFromKeys(metric_keys)
        rows == {r \in table : r.metric_key \in Range(keys)}
        found == {[ metric_key |-> r.metric_key, metric_id |-> r.metric_id,
                    aggregation |-> r.aggregation ] : r \in rows}
        missing == SelectSeq(keys, LAMBDA key : \A r \in found : r.metric_key # key)
    IN IF keys = <<>>
       THEN [status |-> 400, detail |-> "metric_keys required", missing |-> <<>>,
             found |-> {}]
       ELSE IF missing # <<>> /\ found = {}
       THEN [status |-> 404, detail |-> "metric_key not found: " \o JoinKeys(missing),
             missing |-> missing, found |-> {}]
       ELSE [status |-> 200, detail |-> "", missing |-> <<>>, found |-> found]

\* resolve_metric_ids(connection, metric_keys): the returned mapping (found), or the
\* HTTPException raised in its place.
resolve_metric_ids(table, metric_keys) ==
    LET keys == DictFromKeys(metric_keys)
        rows == {r \in table : r.metric_key \in Range(keys)}
        found == {[ metric_key |-> r.metric_key, metric_id |-> r.metric_id,
                    aggregation |-> r.aggregation ] : r \in rows}
        missing == SelectSeq(keys, LAMBDA key : \A r \in found : r.metric_key # key)
    IN IF keys = <<>>
       THEN [status |-> 400, detail |-> "metric_keys required", missing |-> <<>>,
             found |-> {}]
       ELSE IF missing # <<>>
       THEN [status |-> 404, detail |-> "metric_key not found: " \o JoinKeys(missing),
             missing |-> missing, found |-> {}]
       ELSE [status |-> 200, detail |-> "", missing |-> <<>>, found |-> found]

\* resolve_dimension_ids(connection, dimension_keys)
resolve_dimension_ids(table, dimension_keys) ==
    LET keys == DictFromKeys(dimension_keys)
        rows == {r \in table : r.dimension_key \in Range(keys)}
        found == {[ dimension_key |-> r.dimension_key,
                    dimension_id |-> r.dimension_id ] : r \in rows}
        missing == SelectSeq(keys, LAMBDA key : \A r \in found : r.dimension_key # key)
    IN IF keys = <<>>
       THEN [status |-> 200, detail |-> "", missing |-> <<>>, found |-> {}]
       ELSE IF missing # <<>>
       THEN [status |-> 404, detail |-> "dimension_key not found: " \o JoinKeys(missing),
             missing |-> missing, found |-> {}]
       ELSE [status |-> 200, detail |-> "", missing |-> <<>>, found |-> found]

\* resolve_metric_source_grains(connection, metric_ids, requested_grain): one entry
\* per metric id that has a stored series.
resolve_metric_source_grains(table, metric_ids, requested_grain) ==
    LET grains(m) == {r.grain : r \in {x \in table : x.metric_id = m}}
    IN {[metric_id |-> m, grain |-> select_source_grain(grains(m), requested_grain)] :
           m \in {x \in metric_ids : grains(x) # {}}}

(***************************************************************************)
(* POST /v1/query/aggregate (app/api/routes/v1/queries.py), with no        *)
(* dimension filter in the payload.                                        *)
(***************************************************************************)
\* str.lower() on the aggregation spellings of the model.
lower_aggregation(aggregation) ==
    CASE aggregation = "SUM" -> "sum"
      [] aggregation = "Max" -> "max"
      [] OTHER -> aggregation

\* The key of _build_aggregation_groups: the lowered aggregation, "sum" when blank.
aggregation_group(meta) ==
    IF meta.aggregation = NA THEN "sum" ELSE lower_aggregation(meta.aggregation)

\* The statements of the aggregate loop: one per aggregation and source grain that
\* has metric ids (_build_aggregation_groups, _group_metric_ids_by_grain).
aggregate_statements(metric_meta, source_grains) ==
    LET ids(a, g) ==
            {m.metric_id : m \in {x \in metric_meta :
                /\ aggregation_group(x) = a
                /\ [metric_id |-> x.metric_id, grain |-> g] \in source_grains}}
    IN {st \in {[aggregation |-> a, source_grain |-> g, metric_ids |-> ids(a, g)] :
                    a \in {aggregation_group(x) : x \in metric_meta},
                    g \in {x.grain : x \in source_grains}} :
           st.metric_ids # {}}

RECURSIVE SumValues(_)
SumValues(observations) ==
    IF observations = {} THEN 0
    ELSE LET o == CHOOSE x \in observations : TRUE
         IN o.value_num + SumValues(observations \ {o})

\* A plausible slip: every aggregation counts the observations.
aggregation_expression_count(aggregation, observations) == Cardinality(observations)

\* A plausible slip: the aggregation count counts the observations.
aggregation_expression_with_count(aggregation, observations) ==
    CASE aggregation = "avg" -> <<SumValues(observations), Cardinality(observations)>>
      [] aggregation = "min" -> Min({o.value_num : o \in observations})
      [] aggregation = "max" -> Max({o.value_num : o \in observations})
      [] aggregation = "count" -> Cardinality(observations)
      [] OTHER -> SumValues(observations)

\* _aggregation_expression(aggregation) over the observations of one group; an
\* average is the pair <<sum, count>>.
aggregation_expression(aggregation, observations) ==
    CASE aggregation = "avg" -> <<SumValues(observations), Cardinality(observations)>>
      [] aggregation = "min" -> Min({o.value_num : o \in observations})
      [] aggregation = "max" -> Max({o.value_num : o \in observations})
      [] OTHER -> SumValues(observations)

\* dimension_ids[dim_key]
group_dimension_id(dimension_ids, dim_key) ==
    (CHOOSE r \in dimension_ids : r.dimension_key = dim_key).dimension_id

\* The values the two joins of apply_group_by give a series for one group-by key.
group_values(s, set_id, dimension_id) ==
    {v.value : v \in {x \in s.dimension_value :
        \E sv \in s.dimension_set_value :
            /\ sv.set_id = set_id
            /\ sv.dimension_id = dimension_id
            /\ sv.value_id = x.value_id}}

\* A plausible slip: outer joins, a series that lacks a group-by dimension is kept
\* with a blank value.
group_dimensions_outer(s, set_id, labels, dimension_ids) ==
    LET values(key) ==
            LET found == group_values(s, set_id, group_dimension_id(dimension_ids, key))
            IN IF found = {} THEN {NA} ELSE found
    IN {f \in [Range(labels) -> UNION {values(key) : key \in Range(labels)}] :
           \A key \in Range(labels) : f[key] \in values(key)}

\* The label assignments the joins of apply_group_by give a series: none when the
\* series lacks a group-by dimension (inner joins).
group_dimensions(s, set_id, labels, dimension_ids) ==
    LET values(key) == group_values(s, set_id, group_dimension_id(dimension_ids, key))
    IN {f \in [Range(labels) -> UNION {values(key) : key \in Range(labels)}] :
           \A key \in Range(labels) : f[key] \in values(key)}

\* A plausible slip: the end of the time range is inclusive.
aggregate_rows_closed_range(s, st, payload, labels, dimension_ids, metric_meta) ==
    LET series == {sr \in s.metric_series :
                      sr.metric_id \in st.metric_ids /\ sr.grain = st.source_grain}
        joined ==
            UNION {UNION {{[ obs |-> o, metric_id |-> sr.metric_id, dimensions |-> f ] :
                              f \in group_dimensions(s, sr.set_id, labels, dimension_ids)} :
                          o \in {x \in s.metric_observation :
                                    /\ x.series_id = sr.series_id
                                    /\ x.time_start_ts >= payload.start_time
                                    /\ x.time_start_ts <= payload.end_time}} :
                   sr \in series}
        groups == {[metric_id |-> j.metric_id, dimensions |-> j.dimensions] : j \in joined}
        key_of(metric_id) == (CHOOSE m \in metric_meta : m.metric_id = metric_id).metric_key
    IN {[ metric_key |-> key_of(g.metric_id),
          dimensions |-> g.dimensions,
          value |-> aggregation_expression(st.aggregation,
                        {j.obs : j \in {x \in joined :
                            x.metric_id = g.metric_id /\ x.dimensions = g.dimensions}}) ] :
           g \in {x \in groups : \E m \in metric_meta : m.metric_id = x.metric_id}}

\* The rows one aggregate statement returns on store s, passed through
\* _append_aggregate_rows.
aggregate_rows(s, st, payload, labels, dimension_ids, metric_meta) ==
    LET series == {sr \in s.metric_series :
                      sr.metric_id \in st.metric_ids /\ sr.grain = st.source_grain}
        joined ==
            UNION {UNION {{[ obs |-> o, metric_id |-> sr.metric_id, dimensions |-> f ] :
                              f \in group_dimensions(s, sr.set_id, labels, dimension_ids)} :
                          o \in {x \in s.metric_observation :
                                    /\ x.series_id = sr.series_id
                                    /\ x.time_start_ts >= payload.start_time
                                    /\ x.time_start_ts < payload.end_time}} :
                   sr \in series}
        groups == {[metric_id |-> j.metric_id, dimensions |-> j.dimensions] : j \in joined}
        key_of(metric_id) == (CHOOSE m \in metric_meta : m.metric_id = metric_id).metric_key
    IN {[ metric_key |-> key_of(g.metric_id),
          dimensions |-> g.dimensions,
          value |-> aggregation_expression(st.aggregation,
                        {j.obs : j \in {x \in joined :
                            x.metric_id = g.metric_id /\ x.dimensions = g.dimensions}}) ] :
           g \in {x \in groups : \E m \in metric_meta : m.metric_id = x.metric_id}}

\* Lexicographic order of the group-by keys of the model.
LabelOrder == <<"country", "plan", "region", "zone">>

\* The labels apply_group_by misses in the mapping it is handed, sorted.
group_by_missing(labels, dimension_ids) ==
    SortedBy(LabelOrder,
             SelectSeq(labels, LAMBDA key :
                 \A r \in dimension_ids : r.dimension_key # key))

QueryResponse(status, detail, groups) ==
    [status |-> status, detail |-> detail, groups |-> groups]

\* _build_filter_pairs(filters): reads the attributes value_ids and dimension_id of
\* every filter; a filter that lacks one raises AttributeError, which ends the
\* request with a 500.
build_filter_pairs(filters) ==
    IF \E i \in 1..Len(filters) : ~({"value_ids", "dimension_id"} \subseteq DOMAIN filters[i])
    THEN [status |-> 500, pairs |-> <<>>]
    ELSE [status |-> 200,
          pairs |-> Concat([i \in 1..Len(filters) |->
                       [n \in 1..Len(filters[i].value_ids) |->
                           <<filters[i].dimension_id, filters[i].value_ids[n]>>]])]

\* The response of post_aggregate when every statement of the request reads the
\* same store s.
aggregate_response(s, payload) ==
    LET requested_grain == normalize_grain(payload.grain)
        metrics == resolve_metric_ids(s.metric_definition, payload.metric_keys)
        source_grains ==
            resolve_metric_source_grains(s.metric_series,
                {m.metric_id : m \in metrics.found}, requested_grain)
        labels == DictFromKeys(payload.group_by)
        dimensions == resolve_dimension_ids(s.dimension_definition, labels)
        statements == aggregate_statements(metrics.found, source_grains)
        filter_pairs == build_filter_pairs(payload.filters)
    IN IF ~is_supported_grain(requested_grain)
       THEN QueryResponse(400, "unsupported grain", {})
       ELSE IF metrics.status # 200 THEN QueryResponse(metrics.status, metrics.detail, {})
       ELSE IF dimensions.status # 200
       THEN QueryResponse(dimensions.status, dimensions.detail, {})
       ELSE IF filter_pairs.status # 200
       THEN QueryResponse(filter_pairs.status, "Internal Server Error", {})
       ELSE QueryResponse(200, "",
                UNION {aggregate_rows(s, st, payload, labels, dimensions.found,
                                      metrics.found) : st \in statements})

(***************************************************************************)
(* post_aggregate: one action per store statement of the request.  The     *)
(* request runs outside any upload transaction, so each of its statements  *)
(* reads the rows committed when it runs.                                  *)
(***************************************************************************)
NoPayload ==
    [metric_keys |-> <<>>, grain |-> "day", group_by |-> <<>>, start_time |-> 0,
     end_time |-> 0, filters |-> <<>>]

NoQueryResponse == QueryResponse(0, "", {})

\* ran: the statements executed so far; seen: the committed stores the request has
\* run against; catalog_metrics, catalog_dimensions: the keys stored when the
\* resolver's statement ran.
IdleReader ==
    [ pc |-> "idle", payload |-> NoPayload, requested_grain |-> "day",
      metric_meta |-> {}, source_grains |-> {}, group_by_labels |-> <<>>,
      dimension_ids |-> {}, pending |-> {}, items |-> {}, missing |-> <<>>,
      ran |-> {}, data_queries |-> 0, seen |-> {}, catalog_metrics |-> {},
      catalog_dimensions |-> {}, resp |-> NoQueryResponse ]

\* The request ends with response resp.
Respond(reader, resp) ==
    [reader EXCEPT !.pc = "done", !.pending = {}, !.resp = resp]

\* After the resolvers: _build_filter_pairs, then the aggregate loop starts, or has
\* nothing to run.  The loop is reached with no filter pair only.
StartLoop(reader) ==
    LET pending == aggregate_statements(reader.metric_meta, reader.source_grains)
        filter_pairs == build_filter_pairs(reader.payload.filters)
    IN IF filter_pairs.status # 200
       THEN Respond(reader, QueryResponse(filter_pairs.status, "Internal Server Error", {}))
       ELSE IF pending = {} THEN Respond(reader, QueryResponse(200, "", {}))
       ELSE [reader EXCEPT !.pc = "aggregate", !.pending = pending]

\* Lines 316-318: the request arrives; an unsupported grain ends it at once.
ReceiveQuery(payload) ==
    /\ rd.pc = "idle"
    /\ LET requested_grain == normalize_grain(payload.grain)
           reader == [IdleReader EXCEPT !.payload = payload, !.seen = {db},
                                        !.requested_grain = requested_grain]
       IN rd' = IF ~is_supported_grain(requested_grain)
                THEN Respond(reader, QueryResponse(400, "unsupported grain", {}))
                ELSE [reader EXCEPT !.pc = "resolve_metric_ids"]
    /\ UNCHANGED <<db, up, hist, gr, dash>>

\* Line 319: resolve_metric_ids.
ResolveMetricIds ==
    /\ rd.pc = "resolve_metric_ids"
    /\ LET res == resolve_metric_ids(db.metric_definition, rd.payload.metric_keys)
           reader == [rd EXCEPT !.ran = @ \cup {"resolve_metric_ids"},
                                !.seen = @ \cup {db},
                                !.catalog_metrics =
                                    {r.metric_key : r \in db.metric_definition},
                                !.metric_meta = res.found,
                                !.missing = res.missing]
       IN rd' = IF res.status # 200
                THEN Respond(reader, QueryResponse(res.status, res.detail, {}))
                ELSE [reader EXCEPT !.pc = "resolve_metric_source_grains"]
    /\ UNCHANGED <<db, up, hist, gr, dash>>

\* Lines 320-334: resolve_metric_source_grains, then _resolve_dimension_context up to
\* its statement; with no group-by key the loop follows at once.
ResolveMetricSourceGrains ==
    /\ rd.pc = "resolve_metric_source_grains"
    /\ LET source_grains ==
               resolve_metric_source_grains(db.metric_series,
                   {m.metric_id : m \in rd.metric_meta}, rd.requested_grain)
           labels == DictFromKeys(rd.payload.group_by)
           reader == [rd EXCEPT !.ran = @ \cup {"resolve_metric_source_grains"},
                                !.seen = @ \cup {db},
                                !.source_grains = source_grains,
                                !.group_by_labels = labels]
       IN rd' = IF labels = <<>> THEN StartLoop(reader)
                ELSE [reader EXCEPT !.pc = "resolve_dimension_ids"]
    /\ UNCHANGED <<db, up, hist, gr, dash>>

\* Lines 52-62 and 330-334: resolve_dimension_ids for the group-by keys.
ResolveDimensionIds ==
    /\ rd.pc = "resolve_dimension_ids"
    /\ LET res == resolve_dimension_ids(db.dimension_definition, rd.group_by_labels)
           reader == [rd EXCEPT !.ran = @ \cup {"resolve_dimension_ids"},
                                !.seen = @ \cup {db},
                                !.catalog_dimensions =
                                    {r.dimension_key : r \in db.dimension_definition},
                                !.dimension_ids = res.found,
                                !.missing = res.missing]
       IN rd' = IF res.status # 200
                THEN Respond(reader, QueryResponse(res.status, res.detail, {}))
                ELSE StartLoop(reader)
    /\ UNCHANGED <<db, up, hist, gr, dash>>

\* Lines 338-388: one pass of the loop: apply_group_by on the resolved mapping, the
\* aggregate statement, _append_aggregate_rows; after the last pass the response.
AggregateQuery ==
    /\ rd.pc = "aggregate"
    /\ \E st \in rd.pending :
          LET missing == group_by_missing(rd.group_by_labels, rd.dimension_ids)
              rows == aggregate_rows(db, st, rd.payload, rd.group_by_labels,
                                     rd.dimension_ids, rd.metric_meta)
              reader == [rd EXCEPT !.ran = @ \cup {"aggregate"},
                                   !.seen = @ \cup {db},
                                   !.data_queries = @ + 1,
                                   !.pending = @ \ {st},
                                   !.items = @ \cup rows]
          IN rd' = IF missing # <<>>
                   THEN Respond(rd, QueryResponse(404,
                            "dimension_key not found: " \o JoinKeys(missing), {}))
                   ELSE IF reader.pending = {}
                   THEN Respond(reader, QueryResponse(200, "", reader.items))
                   ELSE reader
    /\ UNCHANGED <<db, up, hist, gr, dash>>

(***************************************************************************)
(* The visuals backend (src/visuals-backend): the tables dashboards and    *)
(* dashboard_tiles and the handlers of app/api/routes/v1/dashboards.py,    *)
(* for one client and one user.  A handler is an operator from the tables  *)
(* its transaction starts on to its response and the tables it commits; a  *)
(* handler that raises inside "async with session.begin()" commits none of *)
(* its writes.                                                             *)
(***************************************************************************)
\* Dashboards created in one run; their ids are 1..MaxDashboards, never reused
\* (uuid.uuid4().hex).
MaxDashboards == 1

\* Dashboard requests in one run.
MaxOps == 5

User == "u1"

\* JSON null.
None == "none"

EmptyTables == [dashboards |-> {}, dashboard_tiles |-> {}]

\* Primary keys: dashboards (id, user_id, is_draft); dashboard_tiles
\* (dashboard_id, user_id, is_draft, tile_id).  No constraint on position.
dashboard_rows(T, dashboard_id, user_id, is_draft) ==
    {r \in T.dashboards :
        r.id = dashboard_id /\ r.user_id = user_id /\ r.is_draft = is_draft}

tile_rows(T, dashboard_id, user_id, is_draft) ==
    {r \in T.dashboard_tiles :
        /\ r.dashboard_id = dashboard_id
        /\ r.user_id = user_id
        /\ r.is_draft = is_draft}

TileOrder == <<"t1", "t2", "t3">>

\* _fetch_tiles(session, filters): the rows ordered by position; rows of one
\* position are given here in the order of their tile ids.
RECURSIVE fetch_tiles_sorted(_)
fetch_tiles_sorted(rows) ==
    IF rows = {} THEN <<>>
    ELSE LET first ==
                 CHOOSE r \in rows : \A x \in rows :
                     \/ r.position < x.position
                     \/ /\ r.position = x.position
                        /\ IndexOf(TileOrder, r.tile_id) <= IndexOf(TileOrder, x.tile_id)
         IN <<first>> \o fetch_tiles_sorted(rows \ {first})

fetch_tiles(T, dashboard_id, user_id, is_draft) ==
    fetch_tiles_sorted(tile_rows(T, dashboard_id, user_id, is_draft))

\* _tiles_from_rows(rows)
tiles_from_rows(rows) == [n \in 1..Len(rows) |-> rows[n].config]

\* _item_to_dashboard(item, tiles=..., is_draft=...)
item_to_dashboard(item, tiles, is_draft) ==
    [id |-> item.id, name |-> item.name, description |-> item.description,
     config |-> [tiles |-> tiles], is_draft |-> is_draft]

DashboardResponse(status, tables, out) == [status |-> status, tables |-> tables, out |-> out]

\* The rows _seed_draft adds: the draft dashboard row and one draft tile per
\* published tile.
seed_rows(published, published_tiles, user_id) ==
    [dashboards |-> {[id |-> published.id, user_id |-> user_id, is_draft |-> TRUE,
                      name |-> published.name, description |-> published.description]},
     dashboard_tiles |->
         {[dashboard_id |-> published.id, user_id |-> user_id, is_draft |-> TRUE,
           tile_id |-> published_tiles[n].tile_id,
           position |-> published_tiles[n].position,
           config |-> published_tiles[n].config] : n \in 1..Len(published_tiles)}]

\* A plausible slip: the draft is seeded with the dashboard row only.
seed_draft_without_tiles(T, dashboard_id, user_id) ==
    LET published == CHOOSE r \in dashboard_rows(T, dashboard_id, user_id, FALSE) : TRUE
        seed == seed_rows(published, <<>>, user_id)
    IN [dashboards |-> T.dashboards \cup seed.dashboards,
        dashboard_tiles |-> T.dashboard_tiles]

\* _seed_draft(session, published, published_tiles, user_id, client_id), after the
\* reads that precede it in every draft handler.
seed_draft(T, dashboard_id, user_id) ==
    LET published == CHOOSE r \in dashboard_rows(T, dashboard_id, user_id, FALSE) : TRUE
        seed == seed_rows(published, fetch_tiles(T, dashboard_id, user_id, FALSE), user_id)
    IN [dashboards |-> T.dashboards \cup seed.dashboards,
        dashboard_tiles |-> T.dashboard_tiles \cup seed.dashboard_tiles]

\* The tables a draft handler works on after "if not draft: ... _seed_draft(...)".
with_draft(T, dashboard_id, user_id) ==
    IF dashboard_rows(T, dashboard_id, user_id, TRUE) # {} THEN T
    ELSE seed_draft(T, dashboard_id, user_id)

\* session.delete(row) of a dashboards row: the row and, by cascade, its tiles.
delete_dashboard_row(T, dashboard_id, user_id, is_draft) ==
    [dashboards |-> T.dashboards \ dashboard_rows(T, dashboard_id, user_id, is_draft),
     dashboard_tiles |->
         T.dashboard_tiles \ tile_rows(T, dashboard_id, user_id, is_draft)]

\* The tile rows of a config's tile list: position is the index in the list.
config_tile_rows(dashboard_id, user_id, tiles) ==
    {[dashboard_id |-> dashboard_id, user_id |-> user_id, is_draft |-> FALSE,
      tile_id |-> tiles[n].id, position |-> n - 1, config |-> tiles[n]] :
        n \in 1..Len(tiles)}

\* create_dashboard; dashboard_id stands for the fresh uuid4 of the request.
create_dashboard(T, dashboard_id, user_id, payload) ==
    LET dashboard == [id |-> dashboard_id, user_id |-> user_id, is_draft |-> FALSE,
                      name |-> payload.name, description |-> payload.description]
    IN DashboardResponse(201,
           [dashboards |-> T.dashboards \cup {dashboard},
            dashboard_tiles |-> T.dashboard_tiles
                \cup config_tile_rows(dashboard_id, user_id, payload.tiles)],
           item_to_dashboard(dashboard, payload.tiles, FALSE))

\* get_dashboard, the computation behind the response cache.
get_dashboard(T, dashboard_id, user_id) ==
    LET published == dashboard_rows(T, dashboard_id, user_id, FALSE)
        draft == dashboard_rows(T, dashboard_id, user_id, TRUE)
    IN IF published = {} THEN DashboardResponse(404, T, None)
       ELSE IF draft # {}
       THEN DashboardResponse(200, T,
                item_to_dashboard(CHOOSE r \in draft : TRUE,
                    tiles_from_rows(fetch_tiles(T, dashboard_id, user_id, TRUE)), TRUE))
       ELSE DashboardResponse(200, T,
                item_to_dashboard(CHOOSE r \in published : TRUE,
                    tiles_from_rows(fetch_tiles(T, dashboard_id, user_id, FALSE)), FALSE))

\* update_dashboard
update_dashboard(T, dashboard_id, user_id, payload) ==
    LET published == dashboard_rows(T, dashboard_id, user_id, FALSE)
        updated == [(CHOOSE r \in published : TRUE) EXCEPT
                       !.name = payload.name, !.description = payload.description]
    IN IF published = {} THEN DashboardResponse(404, T, None)
       ELSE DashboardResponse(200,
                [dashboards |-> (T.dashboards \ published) \cup {updated},
                 dashboard_tiles |->
                     (T.dashboard_tiles \ tile_rows(T, dashboard_id, user_id, FALSE))
                         \cup config_tile_rows(dashboard_id, user_id, payload.tiles)],
                item_to_dashboard(updated, payload.tiles, FALSE))

\* func.coalesce(func.max(DashboardTile.position), -1) + 1 over the draft tiles
next_position(rows) == IF rows = {} THEN 0 ELSE Max({r.position : r \in rows}) + 1

\* add_tile_to_draft
add_tile_to_draft(T, dashboard_id, user_id, payload) ==
    LET W == with_draft(T, dashboard_id, user_id)
        tiles == tile_rows(W, dashboard_id, user_id, TRUE)
        tile == [dashboard_id |-> dashboard_id, user_id |-> user_id, is_draft |-> TRUE,
                 tile_id |-> payload.id, position |-> next_position(tiles),
                 config |-> payload]
    IN IF dashboard_rows(T, dashboard_id, user_id, FALSE) = {}
       THEN DashboardResponse(404, T, None)
       ELSE IF \E r \in tiles : r.tile_id = payload.id
       THEN DashboardResponse(409, T, None)
       ELSE DashboardResponse(204,
                [W EXCEPT !.dashboard_tiles = @ \cup {tile}], None)

\* update_tile_in_draft
update_tile_in_draft(T, dashboard_id, user_id, tile_id, payload) ==
    LET W == with_draft(T, dashboard_id, user_id)
        found == {r \in tile_rows(W, dashboard_id, user_id, TRUE) : r.tile_id = tile_id}
    IN IF payload.id # tile_id THEN DashboardResponse(400, T, None)
       ELSE IF dashboard_rows(T, dashboard_id, user_id, FALSE) = {}
       THEN DashboardResponse(404, T, None)
       ELSE IF found = {} THEN DashboardResponse(404, T, None)
       ELSE DashboardResponse(204,
                [W EXCEPT !.dashboard_tiles =
                    (@ \ found) \cup {[r EXCEPT !.config = payload] : r \in found}],
                None)

\* delete_tile_from_draft
delete_tile_from_draft(T, dashboard_id, user_id, tile_id) ==
    LET W == with_draft(T, dashboard_id, user_id)
        found == {r \in tile_rows(W, dashboard_id, user_id, TRUE) : r.tile_id = tile_id}
    IN IF dashboard_rows(T, dashboard_id, user_id, FALSE) = {}
       THEN DashboardResponse(404, T, None)
       ELSE IF found = {} THEN DashboardResponse(404, T, None)
       ELSE DashboardResponse(204, [W EXCEPT !.dashboard_tiles = @ \ found], None)

\* update_draft_layout: an empty item list returns inside the transaction, which
\* commits the seeded draft; with a tile to update the handler reads
\* item.breakpoint, which TileLayoutPatch does not define (AttributeError, 500).
update_draft_layout(T, dashboard_id, user_id, items) ==
    LET W == with_draft(T, dashboard_id, user_id)
        ids == {r.tile_id : r \in tile_rows(W, dashboard_id, user_id, TRUE)}
    IN IF dashboard_rows(T, dashboard_id, user_id, FALSE) = {}
       THEN DashboardResponse(404, T, None)
       ELSE IF items = <<>> THEN DashboardResponse(204, W, None)
       ELSE IF \E n \in 1..Len(items) : items[n].id \notin ids
       THEN DashboardResponse(404, T, None)
       ELSE DashboardResponse(500, T, None)

\* update_draft_metadata; fields_set holds the fields the request sent.
update_draft_metadata(T, dashboard_id, user_id, payload) ==
    LET W == with_draft(T, dashboard_id, user_id)
        draft == CHOOSE r \in dashboard_rows(W, dashboard_id, user_id, TRUE) : TRUE
        name == IF "name" \in payload.fields_set
                THEN (IF payload.name = None THEN "" ELSE payload.name)
                ELSE draft.name
        description == IF "description" \in payload.fields_set THEN payload.description
                       ELSE draft.description
    IN IF payload.fields_set = {} THEN DashboardResponse(400, T, None)
       ELSE IF dashboard_rows(T, dashboard_id, user_id, FALSE) = {}
       THEN DashboardResponse(404, T, None)
       ELSE IF name = "" THEN DashboardResponse(400, T, None)
       ELSE DashboardResponse(204,
                [W EXCEPT !.dashboards =
                    (@ \ {draft}) \cup {[draft EXCEPT !.name = name,
                                                      !.description = description]}],
                None)

\* A plausible slip: the draft's tiles are published, its name and description
\* are not.
commit_draft_tiles_only(T, dashboard_id, user_id) ==
    LET published == dashboard_rows(T, dashboard_id, user_id, FALSE)
        draft == dashboard_rows(T, dashboard_id, user_id, TRUE)
        draft_tiles == fetch_tiles(T, dashboard_id, user_id, TRUE)
        kept == CHOOSE r \in published : TRUE
        D == delete_dashboard_row(T, dashboard_id, user_id, TRUE)
    IN IF published = {} THEN DashboardResponse(404, T, None)
       ELSE IF draft = {} THEN DashboardResponse(404, T, None)
       ELSE DashboardResponse(200,
                [dashboards |-> D.dashboards,
                 dashboard_tiles |->
                     (D.dashboard_tiles \ tile_rows(T, dashboard_id, user_id, FALSE))
                         \cup {[r EXCEPT !.is_draft = FALSE] : r \in Range(draft_tiles)}],
                item_to_dashboard(kept, tiles_from_rows(draft_tiles), FALSE))

\* commit_draft
commit_draft(T, dashboard_id, user_id) ==
    LET published == dashboard_rows(T, dashboard_id, user_id, FALSE)
        draft == dashboard_rows(T, dashboard_id, user_id, TRUE)
        draft_tiles == fetch_tiles(T, dashboard_id, user_id, TRUE)
        updated == [(CHOOSE r \in published : TRUE) EXCEPT
                       !.name = (CHOOSE r \in draft : TRUE).name,
                       !.description = (CHOOSE r \in draft : TRUE).description]
        D == delete_dashboard_row(T, dashboard_id, user_id, TRUE)
    IN IF published = {} THEN DashboardResponse(404, T, None)
       ELSE IF draft = {} THEN DashboardResponse(404, T, None)
       ELSE DashboardResponse(200,
                [dashboards |-> (D.dashboards \ published) \cup {updated},
                 dashboard_tiles |->
                     (D.dashboard_tiles \ tile_rows(T, dashboard_id, user_id, FALSE))
                         \cup {[r EXCEPT !.is_draft = FALSE] : r \in Range(draft_tiles)}],
                item_to_dashboard(updated, tiles_from_rows(draft_tiles), FALSE))

\* delete_draft
delete_draft(T, dashboard_id, user_id) ==
    DashboardResponse(204, delete_dashboard_row(T, dashboard_id, user_id, TRUE), None)

\* delete_dashboard: the published rows of the id and user, with their tiles.
delete_dashboard(T, dashboard_id, user_id) ==
    IF dashboard_rows(T, dashboard_id, user_id, FALSE) = {}
    THEN DashboardResponse(404, T, None)
    ELSE DashboardResponse(204, delete_dashboard_row(T, dashboard_id, user_id, FALSE), None)

\* One open add_tile_to_draft request of the concurrent specification.
IdleRequest ==
    [pc |-> "idle", dashboard_id |-> 0, payload |-> None, seed |-> EmptyTables,
     flushed |-> FALSE, position |-> 0, status |-> 0]

NoCallYet == [op |-> "none", status |-> 0, dashboard_id |-> 0, pre |-> EmptyTables,
              out |-> None, arg |-> None]

NoDashboards ==
    [tables |-> EmptyTables, created |-> 0, ops |-> 0,
     tx |-> [t \in Slots |-> IdleRequest], last |-> NoCallYet]

(***************************************************************************)
(* Idle values of the state components a specification does not use        *)
(***************************************************************************)
NoHistory == [uploads |-> 0, accepted |-> {}, resolved |-> {}]

GrainIdle == [pc |-> "idle", grains |-> {}, requested |-> "day", out |-> "day"]

(***************************************************************************)
(* The files of the model: one or two dimension columns in either order;   *)
(* every row is the base row with at most one attribute changed; only the  *)
(* last row of a file may carry an unparsable value_num.                   *)
(***************************************************************************)
MetricName == [m1 |-> "Signups", m2 |-> "Churn", signups |-> "Signups"]

DimensionCell == [country |-> "US", plan |-> "pro"]

ColumnOrders == {<<"country", "plan">>, <<"plan", "country">>}

BaseRow(cols) ==
    [ metric_key |-> "m1", metric_name |-> MetricName["m1"], aggregation |-> "sum",
      metric_description |-> NA, metric_type |-> "gauge", unit |-> NA,
      directionality |-> NA,
      grain |-> "day", time_start_ts |-> 1, time_end_ts |-> NoTime, value_num |-> "5",
      sample_size |-> NA,
      cells |-> [j \in 1..Len(cols) |-> DimensionCell[cols[j]]] ]

UploadRows(cols) ==
    LET base == BaseRow(cols)
    IN {base,
        [base EXCEPT !.metric_key = "m2", !.metric_name = MetricName["m2"]],
        [base EXCEPT !.grain = "week"],
        [base EXCEPT !.time_start_ts = 2],
        [base EXCEPT !.value_num = "x"]}
       \cup {[base EXCEPT !.cells = [j \in 1..Len(cols) |->
                                        IF j \in blank THEN NA ELSE base.cells[j]]] :
                blank \in SUBSET (1..Len(cols))}

RowSeqs(cols) ==
    {rs \in UNION {[1..n -> UploadRows(cols)] : n \in 1..MaxRows} :
        \A i \in 1..(Len(rs) - 1) : ToNumeric(rs[i].value_num) # NaN}

Files ==
    UNION {{[cols |-> cols, rows |-> rs, reserved |-> REQUIRED_UPLOAD_COLUMNS] :
               rs \in RowSeqs(cols)} : cols \in ColumnOrders}

(***************************************************************************)
(* Specification of sequential uploads: one upload request at a time, each *)
(* run statement by statement, with a store failure possible at every      *)
(* statement of the write phase.                                           *)
(***************************************************************************)
Init ==
    /\ db = EmptyDb
    /\ up = [t \in Slots |-> IdleUpload]
    /\ rd = IdleReader
    /\ hist = NoHistory
    /\ dash = NoDashboards
    /\ gr = GrainIdle

Next ==
    \/ \E f \in Files : ReceiveUpload(1, f)
    \/ Validate(1)
    \/ UpsertMetricDefinitions(1)
    \/ UpsertDimensionDefinition(1)
    \/ InsertDimensionValues(1)
    \/ InsertDimensionSets(1)
    \/ InsertDimensionSetValues(1)
    \/ InsertMetricSeries(1)
    \/ InsertObservations(1)
    \/ Commit(1)
    \/ StoreError(1)

Spec == Init /\ [][Next]_vars

TypeOK == up[1].pc \in Terminal \cup WritePcs \cup {"validate"}

Finished(t) == up[t].pc \in {"done", "rejected", "failed"}

\* C1: an upload that fails, by a validation rejection or by a store error at any
\* statement of the write phase or at the commit, leaves the committed contents of
\* every table identical to their contents before the call.
C1_FailedUploadChangesNothing ==
    up[1].pc \in {"rejected", "failed"} => db = up[1].pre

\* A store error at the last insert, after the earlier statements of the same upload
\* had written rows, on top of a store an earlier upload has filled.
C1_Witness ==
    /\ up[1].pc = "failed"
    /\ up[1].failed_at = "metric_observation"
    /\ up[1].error = "store_unavailable"
    /\ up[1].wrote
    /\ db.metric_observation # {}

\* C2: no two stored observations share (series_id, time_start_ts).
C2_ObservationUnique ==
    \A o1, o2 \in db.metric_observation :
        (o1.series_id = o2.series_id /\ o1.time_start_ts = o2.time_start_ts) => o1 = o2

\* A batch repeating a stored observation was rejected as a whole.
C2_Witness ==
    /\ up[1].pc = "failed"
    /\ up[1].error = "unique_violation"
    /\ up[1].failed_at = "metric_observation"
    /\ db.metric_observation # {}
    /\ Len(up[1].file.rows) = 1

\* C3: at most one metric_series row per (metric_id, grain, set_id), and an upload
\* keeps every series row that existed before it.
C3_SeriesUnique ==
    /\ \A s1, s2 \in db.metric_series :
           (s1.metric_id = s2.metric_id /\ s1.grain = s2.grain /\ s1.set_id = s2.set_id)
               => s1 = s2
    /\ up[1].pc = "done" => up[1].pre.metric_series \subseteq db.metric_series
    /\ \A o \in db.metric_observation :
           \E s \in db.metric_series : s.series_id = o.series_id

\* A later upload stored observations on a series an earlier upload created.
C3_Witness ==
    /\ up[1].pc = "done"
    /\ up[1].resp.metric_series_inserted = 0
    /\ up[1].resp.metric_observations_inserted > 0
    /\ up[1].pre.metric_series # {}

\* C4: rows of committed uploads that carry the same set of non-blank
\* (dimension key, value) pairs were resolved to the same set_id, whatever the order
\* of the dimension columns, and a set_hash has one dimension_set row.
C4_SamePairsSameSet ==
    /\ \A a, b \in hist.resolved : a.pairs = b.pairs => a.set_id = b.set_id
    /\ \A x, y \in db.dimension_set : x.set_hash = y.set_hash => x = y

\* Two uploads with the two column orders carried the same two-pair combination.
C4_Witness ==
    \E a, b \in hist.resolved :
        /\ a.cols # b.cols
        /\ a.pairs = b.pairs
        /\ Cardinality(a.pairs) = 2

\* C7 as claimed: uploading again a file that was ingested successfully succeeds,
\* stores no new observation and reports no newly created entity (a store failure
\* aside).
C7_AsClaimed ==
    (up[1].reupload /\ Finished(1) /\ up[1].error # "store_unavailable") =>
        /\ up[1].pc = "done"
        /\ db.metric_observation = up[1].pre.metric_observation
        /\ up[1].resp.metrics_upserted = 0
        /\ up[1].resp.dimensions_upserted = 0
        /\ up[1].resp.dimension_values_inserted = 0
        /\ up[1].resp.dimension_sets_inserted = 0
        /\ up[1].resp.metric_series_inserted = 0
        /\ up[1].resp.metric_observations_inserted = 0

\* C7 amended: uploading again a file that was ingested successfully is rejected as
\* a whole, by the unique violation of its observation insert unless the store fails
\* earlier, and leaves every table as it was.
C7_ReuploadRejected ==
    (up[1].reupload /\ Finished(1)) =>
        /\ up[1].pc = "failed"
        /\ db = up[1].pre
        /\ up[1].error # "store_unavailable" =>
               /\ up[1].error = "unique_violation"
               /\ up[1].failed_at = "metric_observation"

C7_Witness ==
    /\ up[1].reupload
    /\ up[1].pc = "failed"
    /\ up[1].error = "unique_violation"
    /\ up[1].failed_at = "metric_observation"
    /\ db.metric_observation # {}

(***************************************************************************)
(* Specification of the grain resolver alone: every set of stored grains   *)
(* and every supported requested grain, then one call.                     *)
(***************************************************************************)
InitGrain ==
    /\ db = EmptyDb
    /\ up = [t \in Slots |-> IdleUpload]
    /\ rd = IdleReader
    /\ hist = NoHistory
    /\ dash = NoDashboards
    /\ gr \in [pc : {"call"}, grains : SUBSET Grains, requested : Grains, out : {"none"}]

SelectSourceGrain ==
    /\ gr.pc = "call"
    /\ gr' = [gr EXCEPT !.pc = "done",
                        !.out = select_source_grain(gr.grains, gr.requested)]
    /\ UNCHANGED <<db, up, rd, hist, dash>>

NextGrain == SelectSourceGrain

SpecGrain == InitGrain /\ [][NextGrain]_vars

\* C5: for every set S of stored supported grains and supported requested grain R the
\* result is R when S is empty, else the coarsest stored grain no coarser than R when
\* there is one, else the finest stored grain.
C5_SourceGrainChoice ==
    gr.pc = "done" =>
        LET S == gr.grains
            R == gr.requested
            fine == {g \in S : GRAIN_RANK(g) <= GRAIN_RANK(R)}
        IN /\ S = {} => gr.out = R
           /\ (S # {} /\ fine # {}) =>
                  /\ gr.out \in fine
                  /\ \A g \in fine : GRAIN_RANK(g) <= GRAIN_RANK(gr.out)
           /\ (S # {} /\ fine = {}) =>
                  /\ gr.out \in S
                  /\ \A g \in S : GRAIN_RANK(gr.out) <= GRAIN_RANK(g)

\* All stored grains coarser than the request: the fallback case happened.
C5_Witness ==
    /\ gr.pc = "done"
    /\ gr.grains = {"week", "month"}
    /\ gr.requested = "hour"
    /\ gr.out = "week"

\* C6 as claimed: with stored grains {day, week}, hour resolves to day, week
\* resolves to day and month resolves to week.
C6_AsClaimed ==
    (gr.pc = "done" /\ gr.grains = {"day", "week"}) =>
        /\ gr.requested = "hour" => gr.out = "day"
        /\ gr.requested = "week" => gr.out = "day"
        /\ gr.requested = "month" => gr.out = "week"

\* C6 amended: with stored grains {day, week}, hour resolves to day, week
\* resolves to week (the candidates for week are {day, week}) and month to week.
C6_DayWeekResolution ==
    (gr.pc = "done" /\ gr.grains = {"day", "week"}) =>
        /\ gr.requested = "hour" => gr.out = "day"
        /\ gr.requested = "week" => gr.out = "week"
        /\ gr.requested = "month" => gr.out = "week"

C6_Witness ==
    /\ gr.pc = "done"
    /\ gr.grains = {"day", "week"}
    /\ gr.requested = "week"
    /\ gr.out = "week"

(***************************************************************************)
(* Specification of concurrent requests: two upload transactions and one   *)
(* aggregate query, their store statements interleaved in every order.     *)
(***************************************************************************)
\* The dimension_definition upsert of t waits for a row u holds.
WaitsAtDimensionDefinition(t, u) ==
    /\ up[t].pc = "dimension_definition"
    /\ WaitsFor(t, u, "dimension_definition",
                <<dimension_rows(up[t].file)[up[t].cursor]>>, {"dimension_key"})

\* Two dimension_definition upserts wait for each other (their files carry the
\* dimension columns in opposite orders): the store aborts one of the two
\* statements with a deadlock error, and that upload rolls back.
DeadlockDetected(t) ==
    /\ \E u \in Slots : WaitsAtDimensionDefinition(t, u) /\ WaitsAtDimensionDefinition(u, t)
    /\ Fail(t, "deadlock_detected")
    /\ UNCHANGED <<rd, hist, gr, dash>>

\* Files of the concurrent runs: all carry the combination country=US, plan=pro.
ConcFiles ==
    LET cp == <<"country", "plan">>
        pc == <<"plan", "country">>
    IN { [cols |-> cp, reserved |-> REQUIRED_UPLOAD_COLUMNS,
          rows |-> <<[BaseRow(cp) EXCEPT !.grain = "week"]>>],
         [cols |-> cp, reserved |-> REQUIRED_UPLOAD_COLUMNS,
          rows |-> <<BaseRow(cp),
                     [BaseRow(cp) EXCEPT !.grain = "week", !.time_start_ts = 2]>>],
         [cols |-> cp, reserved |-> REQUIRED_UPLOAD_COLUMNS,
          rows |-> <<[BaseRow(cp) EXCEPT !.metric_key = "m2",
                                         !.metric_name = MetricName["m2"]]>>],
         [cols |-> pc, reserved |-> REQUIRED_UPLOAD_COLUMNS,
          rows |-> <<[BaseRow(pc) EXCEPT !.metric_key = "m2",
                                         !.metric_name = MetricName["m2"]]>>] }

\* Payloads of the aggregate request: repeated, unknown and known keys.
Payload(metric_keys, grain, group_by) ==
    [metric_keys |-> metric_keys, grain |-> grain, group_by |-> group_by,
     start_time |-> 1, end_time |-> 3, filters |-> <<>>]

QueryPayloads ==
    { Payload(<<"m1">>, "day", <<>>),
      Payload(<<"m2", "m1", "m2">>, " week ", <<"country">>),
      Payload(<<"m3", "m1", "m3", "m4">>, "day", <<>>),
      Payload(<<"m1">>, "Day", <<"region", "plan", "region", "zone">>),
      Payload(<<"m1">>, "minute", <<>>) }

NextConc ==
    \/ \E t \in Slots :
          \/ \E f \in ConcFiles : ReceiveUpload(t, f)
          \/ Validate(t)
          \/ UpsertMetricDefinitions(t)
          \/ UpsertDimensionDefinition(t)
          \/ InsertDimensionValues(t)
          \/ InsertDimensionSets(t)
          \/ InsertDimensionSetValues(t)
          \/ InsertMetricSeries(t)
          \/ InsertObservations(t)
          \/ Commit(t)
          \/ DeadlockDetected(t)
    \/ \E payload \in QueryPayloads : ReceiveQuery(payload)
    \/ ResolveMetricIds
    \/ ResolveMetricSourceGrains
    \/ ResolveDimensionIds
    \/ AggregateQuery

SpecConc == Init /\ [][NextConc]_vars

\* C8 as claimed: for every interleaving of an upload with an aggregate request, the
\* response is the one the request gives on a single committed store it ran against,
\* the store before the upload's commit or the store after it; no response mixes
\* statements that saw the upload's rows with statements that did not.
C8_AsClaimed ==
    rd.pc = "done" => \E s \in rd.seen : rd.resp = aggregate_response(s, rd.payload)

\* C9: for every interleaving of two uploads that carry the same dimension values and
\* combination, the store holds one dimension_value row per (dimension_id, value) and
\* one dimension_set row per set_hash, no upload fails in one of the insert-if-absent
\* statements, and the rows of the committed uploads with the same pairs are resolved
\* to the same stored set_id, which their series rows carry.
C9_ConcurrentUploadsShareRows ==
    /\ \A x, y \in db.dimension_value :
           (x.dimension_id = y.dimension_id /\ x.value = y.value) => x = y
    /\ \A x, y \in db.dimension_set : x.set_hash = y.set_hash => x = y
    /\ \A t \in Slots :
           up[t].pc = "failed" =>
               up[t].failed_at \notin {"dimension_value", "dimension_set",
                                       "dimension_set_value"}
    /\ \A a, b \in hist.resolved : a.pairs = b.pairs => a.set_id = b.set_id
    /\ \A a \in hist.resolved :
           /\ \E x \in db.dimension_set : x.set_id = a.set_id
           /\ \E sr \in db.metric_series : sr.set_id = a.set_id

\* Two uploads, both started while the store held no dimension value and with their
\* dimension columns in opposite orders, committed; the later one found the values
\* and the set of the earlier one.
C9_Witness ==
    /\ up[1].pc = "done" /\ up[2].pc = "done"
    /\ up[1].pre.dimension_value = {} /\ up[2].pre.dimension_value = {}
    /\ up[1].file.cols # up[2].file.cols
    /\ \E t \in Slots :
           /\ up[t].resp.dimension_values_inserted = 0
           /\ up[t].resp.dimension_sets_inserted = 0
           /\ up[t].resp.metric_series_inserted = 1
    /\ Cardinality(db.dimension_value) = 2
    /\ Cardinality(db.dimension_set) = 1
    /\ \E s1, s2 \in db.metric_series : s1 # s2 /\ s1.set_id = s2.set_id

\* C10: resolve_metric_ids and resolve_dimension_ids return a mapping that covers
\* every distinct requested key, or end the request with a 404 whose detail lists
\* every key missing from the catalog exactly once and return no mapping; with an
\* unknown group-by key no aggregate statement is executed.
C10_AllOrNotFound ==
    LET metric_keys == Range(rd.payload.metric_keys)
        unknown_metrics == metric_keys \ rd.catalog_metrics
        group_keys == Range(rd.payload.group_by)
        unknown_dimensions == group_keys \ rd.catalog_dimensions
        ListsOnce(missing, keys) ==
            Range(missing) = keys /\ Len(missing) = Cardinality(keys)
    IN /\ "resolve_metric_ids" \in rd.ran =>
              IF unknown_metrics = {}
              THEN {m.metric_key : m \in rd.metric_meta} = metric_keys
              ELSE /\ rd.pc = "done"
                   /\ rd.resp.status = 404
                   /\ rd.metric_meta = {}
                   /\ ListsOnce(rd.missing, unknown_metrics)
                   /\ rd.resp.detail = "metric_key not found: " \o JoinKeys(rd.missing)
                   /\ rd.ran = {"resolve_metric_ids"}
       /\ "resolve_dimension_ids" \in rd.ran =>
              IF unknown_dimensions = {}
              THEN {d.dimension_key : d \in rd.dimension_ids} = group_keys
              ELSE /\ rd.pc = "done"
                   /\ rd.resp.status = 404
                   /\ rd.dimension_ids = {}
                   /\ ListsOnce(rd.missing, unknown_dimensions)
                   /\ rd.resp.detail =
                          "dimension_key not found: " \o JoinKeys(rd.missing)
                   /\ "aggregate" \notin rd.ran
                   /\ rd.data_queries = 0
       /\ rd.data_queries > 0 =>
              group_keys \subseteq {d.dimension_key : d \in rd.dimension_ids}

\* A request with repeated and unknown group-by keys next to a stored one ended with
\* the 404 that names the two unknown keys, after its metric key was resolved and
\* had a stored series.
C10_Witness ==
    /\ rd.pc = "done"
    /\ rd.resp.status = 404
    /\ rd.payload.group_by = <<"region", "plan", "region", "zone">>
    /\ rd.missing = <<"region", "zone">>
    /\ rd.resp.detail = "dimension_key not found: region, zone"
    /\ "plan" \in rd.catalog_dimensions
    /\ rd.metric_meta # {}
    /\ rd.source_grains # {}
    /\ rd.data_queries = 0


(***************************************************************************)
(* Specification of sequential requests: uploads and one aggregate query,  *)
(* each request run to its response before the next one is received.       *)
(***************************************************************************)
\* The row of the ingestion scenario: metric signups, country=US, value 5, grain day.
ScenarioRow ==
    [BaseRow(<<"country">>) EXCEPT !.metric_key = "signups",
                                   !.metric_name = MetricName["signups"]]

\* The scenario row in a file whose header carries every reserved column.
ScenarioFile ==
    [cols |-> <<"country">>, reserved |-> REQUIRED_UPLOAD_COLUMNS, rows |-> <<ScenarioRow>>]

\* The scenario row as a file of the five columns metric_key, grain, country,
\* time_start_ts and value_num only.
ScenarioFileFiveColumns ==
    [cols |-> <<"country">>,
     reserved |-> {"metric_key", "grain", "time_start_ts", "value_num"},
     rows |-> <<[ScenarioRow EXCEPT !.metric_name = NA, !.aggregation = NA]>>]

\* One-row files over the optional cells time_end_ts (blank, equal to the start,
\* after the start) and sample_size (blank or one of the spellings).
FieldFiles ==
    {[cols |-> <<"country">>, reserved |-> REQUIRED_UPLOAD_COLUMNS,
      rows |-> <<[BaseRow(<<"country">>) EXCEPT !.time_end_ts = e, !.sample_size = n]>>] :
        e \in {NoTime, 1, 2}, n \in {NA} \cup SampleSizeSpellings}

\* Two observations of one series, at times 1 and 2.
RangeFile ==
    [cols |-> <<"country">>, reserved |-> REQUIRED_UPLOAD_COLUMNS,
     rows |-> <<BaseRow(<<"country">>),
                [BaseRow(<<"country">>) EXCEPT !.time_start_ts = 2, !.value_num = "7"]>>]

\* A cell that contains the separators, and the two cells it can be read as.
SeparatorFileOneColumn ==
    [cols |-> <<"a">>, reserved |-> REQUIRED_UPLOAD_COLUMNS,
     rows |-> <<[BaseRow(<<>>) EXCEPT !.cells = <<"1|b=2">>]>>]

SeparatorFileTwoColumns ==
    [cols |-> <<"a", "b">>, reserved |-> REQUIRED_UPLOAD_COLUMNS,
     rows |-> <<[BaseRow(<<>>) EXCEPT !.cells = <<"1", "2">>, !.time_start_ts = 2]>>]

SeqFiles ==
    {ScenarioFile, ScenarioFileFiveColumns, RangeFile, SeparatorFileOneColumn,
     SeparatorFileTwoColumns} \cup FieldFiles

\* A filter of the request schema DimensionFilter: a dimension key and string values.
DimensionFilter(dimension_key, values) == [dimension_key |-> dimension_key, values |-> values]

RangePayload(metric_keys, group_by, start_time, end_time) ==
    [Payload(metric_keys, "day", group_by) EXCEPT !.start_time = start_time,
                                                  !.end_time = end_time]

ScenarioPayload == RangePayload(<<"signups">>, <<"country">>, 1, 2)

FilterPayload ==
    [RangePayload(<<"m1">>, <<>>, 1, 3) EXCEPT
        !.filters = <<DimensionFilter("country", <<"US">>)>>]

SeqPayloads ==
    {ScenarioPayload, FilterPayload}
    \cup {RangePayload(<<"m1">>, <<>>, a, b) : a \in 1..3, b \in 1..3}

NextSeq ==
    \/ \E f \in SeqFiles : rd.pc \in {"idle", "done"} /\ ReceiveUpload(1, f)
    \/ Validate(1)
    \/ UpsertMetricDefinitions(1)
    \/ UpsertDimensionDefinition(1)
    \/ InsertDimensionValues(1)
    \/ InsertDimensionSets(1)
    \/ InsertDimensionSetValues(1)
    \/ InsertMetricSeries(1)
    \/ InsertObservations(1)
    \/ Commit(1)
    \/ \E payload \in SeqPayloads : up[1].pc \in Terminal /\ ReceiveQuery(payload)
    \/ ResolveMetricIds
    \/ ResolveMetricSourceGrains
    \/ ResolveDimensionIds
    \/ AggregateQuery

SpecSeq == Init /\ [][NextSeq]_vars

\* C12 as claimed: an aggregate request on known metrics and dimensions that carries
\* a non-empty filter list, each filter a dimension key with string values, completes
\* without error.
C12_AsClaimed ==
    (rd.pc = "done" /\ rd.payload.filters # <<>> /\ rd.resp.status # 404) =>
        rd.resp.status = 200

\* The observations of the series of one metric key on store s.
observations_of(s, metric_key) ==
    {o \in s.metric_observation :
        \E sr \in s.metric_series, m \in s.metric_definition :
            /\ sr.series_id = o.series_id
            /\ sr.metric_id = m.metric_id
            /\ m.metric_key = metric_key}

C16_AsClaimed ==
    (up[1].file = ScenarioFileFiveColumns /\ up[1].pre = EmptyDb /\ Finished(1)) =>
        up[1].pc = "done"

\* C16 amended: from an empty store, the upload of the scenario row in a file that
\* carries every reserved column, with a metric name and the aggregation sum,
\* succeeds, and a following aggregate query for signups, grain day, range [1, 2),
\* group_by country answers exactly one group: country US, value 5.
C16_ScenarioAnswer ==
    (up[1].file = ScenarioFile /\ up[1].pre = EmptyDb /\ Finished(1)) =>
        /\ up[1].pc = "done"
        /\ (rd.pc = "done" /\ rd.payload = ScenarioPayload /\ rd.seen = {db}) =>
               /\ rd.resp.status = 200
               /\ rd.resp.groups = {[metric_key |-> "signups",
                                     dimensions |-> [country |-> "US"],
                                     value |-> 5]}

\* The scenario upload was the first request and the scenario query followed it.
C16_Witness ==
    /\ up[1].file = ScenarioFile
    /\ up[1].pre = EmptyDb
    /\ up[1].pc = "done"
    /\ hist.uploads = 1
    /\ rd.pc = "done"
    /\ rd.payload = ScenarioPayload
    /\ rd.seen = {db}

\* Row i of the file carries a time_end_ts that is not after its time_start_ts.
row_ends_early(file, i) ==
    /\ file.rows[i].time_end_ts # NoTime
    /\ file.rows[i].time_end_ts <= file.rows[i].time_start_ts

\* Row i of the file carries a sample_size that reads as a negative number.
row_sample_negative(file, i) ==
    /\ sample_size_parses(file.rows[i].sample_size)
    /\ sample_size_halves(file.rows[i].sample_size) < 0

\* C17 as claimed: every stored observation has time_end_ts absent or after its
\* time_start_ts and sample_size absent or non-negative, and an upload with a row
\* whose time_end_ts is not after its time_start_ts, or whose sample_size is
\* negative, ends without success and leaves the store as it was.
C17_AsClaimed ==
    /\ \A o \in db.metric_observation :
          /\ \A e \in o.time_end_ts : e > o.time_start_ts
          /\ \A n \in o.sample_size : n >= 0
    /\ (/\ Finished(1)
        /\ \E i \in RowIdx(up[1].file) :
              row_ends_early(up[1].file, i) \/ row_sample_negative(up[1].file, i)) =>
           /\ up[1].pc \in {"rejected", "failed"}
           /\ db = up[1].pre

\* C18 as claimed: a successful upload keeps every row of dimension_value,
\* dimension_set, dimension_set_value and metric_series that was stored before it,
\* and the (dimension, value) pairs of every set_id that existed before it are the
\* same after it.
C18_AsClaimed ==
    up[1].pc = "done" =>
        /\ \A T \in {"dimension_value", "dimension_set", "dimension_set_value",
                     "metric_series"} : up[1].pre[T] \subseteq db[T]
        /\ \A st \in up[1].pre.dimension_set :
              {sv \in db.dimension_set_value : sv.set_id = st.set_id}
                  = {sv \in up[1].pre.dimension_set_value : sv.set_id = st.set_id}

\* C20 as claimed: rows of committed uploads whose sets of non-blank (dimension key,
\* value) pairs differ were resolved to different set_ids.
C20_AsClaimed ==
    \A a, b \in hist.resolved : a.pairs # b.pairs => a.set_id # b.set_id

\* The rows of table T the latest upload created: their identity is new.
created_rows(T) ==
    {r \in db[T] : \A q \in up[1].pre[T] : q[IdentityColumn[T]] # r[IdentityColumn[T]]}

MaxFilters == 2

MaxK == 3

\* The last call of the composition run: none yet.
NoCall == [fn |-> "none"]

\* Four observations of m1 over the combinations US/pro, CA/pro, DE/pro and US with
\* no plan, and one observation of m2.
ComposeRow(metric_key, cells, time_start_ts, value_num) ==
    [BaseRow(<<>>) EXCEPT !.metric_key = metric_key,
                          !.metric_name = MetricName[metric_key],
                          !.cells = cells,
                          !.time_start_ts = time_start_ts,
                          !.value_num = value_num]

ComposeFiles ==
    { [cols |-> <<"country", "plan">>, reserved |-> REQUIRED_UPLOAD_COLUMNS,
       rows |-> << ComposeRow("m1", <<"US", "pro">>, 1, "5"),
                   ComposeRow("m1", <<"CA", "pro">>, 1, "5"),
                   ComposeRow("m1", <<"DE", "pro">>, 1, "7"),
                   ComposeRow("m1", <<"US", NA>>, 2, "7") >>],
      [cols |-> <<"country", "plan">>, reserved |-> REQUIRED_UPLOAD_COLUMNS,
       rows |-> << ComposeRow("m2", <<"US", "pro">>, 1, "7") >>] }

\* apply_dimension_pairs(stmt, connection, pairs, alias_prefix): the series the
\* statement keeps; one join per dimension id of the pairs, on the dimension id and
\* the value ids collected for it.
apply_dimension_pairs(s, series, pairs) ==
    LET grouped_ids(dim_id) == {p[2] : p \in {x \in Range(pairs) : x[1] = dim_id}}
    IN {sr \in series :
           \A dim_id \in {p[1] : p \in Range(pairs)} :
               \E sv \in s.dimension_set_value :
                   /\ sv.set_id = sr.set_id
                   /\ sv.dimension_id = dim_id
                   /\ sv.value_id \in grouped_ids(dim_id)}

\* apply_dimension_value_filters(stmt, connection, filters, alias_prefix) with no
\* dimension_ids handed in: the keys are resolved (404 when one is unknown), then
\* every filter with a non-empty value list adds its own two joins.
apply_dimension_value_filters(s, series, filters) ==
    LET dimensions ==
            resolve_dimension_ids(s.dimension_definition,
                                  [i \in 1..Len(filters) |-> filters[i].dimension_key])
        id_of(key) == group_dimension_id(dimensions.found, key)
    IN IF filters = <<>> THEN [status |-> 200, kept |-> series]
       ELSE IF dimensions.status # 200 THEN [status |-> dimensions.status, kept |-> {}]
       ELSE [status |-> 200,
             kept |-> {sr \in series :
                 \A i \in 1..Len(filters) :
                     filters[i].values # <<>> =>
                         \E sv \in s.dimension_set_value, v \in s.dimension_value :
                             /\ sv.set_id = sr.set_id
                             /\ v.value_id = sv.value_id
                             /\ sv.dimension_id = id_of(filters[i].dimension_key)
                             /\ v.value \in Range(filters[i].values)}]

\* Sequences of at most n elements of S.
SeqsUpTo(S, n) == UNION {[1..m -> S] : m \in 0..n}

\* Filter pairs (dimension_id, value_id) over the ids the compose files get.
FilterPairs == (1..2) \X (1..4)

\* Filters by key: the keys country, plan and the unknown zone, with value lists.
FilterEntries ==
    {DimensionFilter(key, values) :
        key \in {"country", "plan", "zone"},
        values \in {<<>>, <<"US">>, <<"CA">>, <<"pro">>, <<"US", "CA">>}}

ApplyDimensionPairs ==
    /\ up[1].pc \in Terminal
    /\ gr = NoCall
    /\ \E pairs \in SeqsUpTo(FilterPairs, MaxFilters) :
          gr' = [fn |-> "apply_dimension_pairs", store |-> db, pairs |-> pairs,
                 status |-> 200,
                 kept |-> apply_dimension_pairs(db, db.metric_series, pairs)]
    /\ UNCHANGED <<db, up, rd, hist, dash>>

ApplyDimensionValueFilters ==
    /\ up[1].pc \in Terminal
    /\ gr = NoCall
    /\ \E filters \in SeqsUpTo(FilterEntries, MaxFilters) :
          LET res == apply_dimension_value_filters(db, db.metric_series, filters)
          IN gr' = [fn |-> "apply_dimension_value_filters", store |-> db,
                    filters |-> filters, status |-> res.status, kept |-> res.kept]
    /\ UNCHANGED <<db, up, rd, hist, dash>>

\* C11 as claimed: in both filter forms a series is kept exactly when, for every
\* dimension the filters name, its set holds a value of that dimension that is among
\* the values the filters list for that dimension, over all entries together
\* (every filter listing at least one value).
C11_AsClaimed ==
    /\ gr.fn = "apply_dimension_pairs" =>
          gr.kept =
              {sr \in gr.store.metric_series :
                  \A dim_id \in {p[1] : p \in Range(gr.pairs)} :
                      \E sv \in gr.store.dimension_set_value :
                          /\ sv.set_id = sr.set_id
                          /\ sv.dimension_id = dim_id
                          /\ <<dim_id, sv.value_id>> \in Range(gr.pairs)}
    /\ (/\ gr.fn = "apply_dimension_value_filters"
        /\ gr.status = 200
        /\ \A i \in 1..Len(gr.filters) : gr.filters[i].values # <<>>) =>
          gr.kept =
              {sr \in gr.store.metric_series :
                  \A key \in {gr.filters[i].dimension_key : i \in 1..Len(gr.filters)} :
                      \E sv \in gr.store.dimension_set_value,
                         d \in gr.store.dimension_definition,
                         v \in gr.store.dimension_value,
                         i \in 1..Len(gr.filters) :
                          /\ sv.set_id = sr.set_id
                          /\ d.dimension_id = sv.dimension_id
                          /\ d.dimension_key = key
                          /\ v.value_id = sv.value_id
                          /\ gr.filters[i].dimension_key = key
                          /\ v.value \in Range(gr.filters[i].values)}

\* metric_order = {key: idx for idx, key in enumerate(payload.metric_keys)}: a key
\* that occurs more than once keeps the index of its last occurrence.
metric_order(metric_keys) ==
    [key \in Range(metric_keys) |->
        Max({i \in 1..Len(metric_keys) : metric_keys[i] = key}) - 1]

\* The order of Python's string comparison on the dimension values of the model.
ValueOrder ==
    <<"", "1", "1|b=2", "2", "2|b=3", "3", "CA", "DE", "US", "pro">>

\* Python's tuple comparison a < b on two tuples of strings of one length.
tuple_less(a, b) ==
    \E n \in 1..Len(a) :
        /\ \A m \in 1..(n - 1) : a[m] = b[m]
        /\ IndexOf(ValueOrder, a[n]) < IndexOf(ValueOrder, b[n])

\* group_sort_key / series_sort_key: (metric_order.get(metric_key, 0), dims).
group_sort_key(item, order, labels) ==
    [ metric_idx |-> IF item.metric_key \in DOMAIN order THEN order[item.metric_key] ELSE 0,
      dims |-> [n \in 1..Len(labels) |->
                   IF labels[n] \in DOMAIN item.dimensions
                   THEN item.dimensions[labels[n]] ELSE ""] ]

sort_key_less(a, b) ==
    \/ a.metric_idx < b.metric_idx
    \/ a.metric_idx = b.metric_idx /\ tuple_less(a.dims, b.dims)

\* list.sort(key=...): a stable sort; less holds the pairs <<i, j>> of positions
\* for which the key of items[i] is smaller than the key of items[j].
stable_sort(items, less) ==
    LET rank(i) ==
            Cardinality({j \in 1..Len(items) :
                \/ <<j, i>> \in less
                \/ <<i, j>> \notin less /\ j < i}) + 1
    IN [n \in 1..Len(items) |-> items[CHOOSE i \in 1..Len(items) : rank(i) = n]]

\* The pairs of positions of items whose sort keys compare as smaller.
group_key_less(items, order, labels) ==
    {p \in (1..Len(items)) \X (1..Len(items)) :
        sort_key_less(group_sort_key(items[p[1]], order, labels),
                      group_sort_key(items[p[2]], order, labels))}

\* A plausible slip: the groups are returned in the order the statements gave them.
finalize_groups_unsorted(items, order, labels) == items

\* _finalize_groups(items, metric_order, group_by_labels)
finalize_groups(items, order, labels) ==
    stable_sort(items, group_key_less(items, order, labels))

\* "|".join([metric_key] + [f"{key}={dimensions.get(key, '')}" for key in labels])
RECURSIVE timeseries_series_key(_, _, _)
timeseries_series_key(metric_key, dimensions, labels) ==
    IF labels = <<>> THEN metric_key
    ELSE LET n == Len(labels)
         IN timeseries_series_key(metric_key, dimensions, SubSeq(labels, 1, n - 1))
                \o "|" \o labels[n] \o "=" \o dimensions[labels[n]]

\* _append_timeseries_rows(series_map, rows, metric_id_to_key, group_by_labels): the
\* series map as the sequence of its entries in insertion order; the rows carry the
\* metric key of their metric id.
RECURSIVE append_timeseries_rows(_, _, _)
append_timeseries_rows(series_map, rows, labels) ==
    IF rows = <<>> THEN series_map
    ELSE LET row == Head(rows)
             key == timeseries_series_key(row.metric_key, row.dimensions, labels)
             point == [time_start_ts |-> row.time_start_ts, value |-> row.value]
             at == {i \in 1..Len(series_map) : series_map[i].series_key = key}
             next ==
                 IF at = {}
                 THEN Append(series_map,
                             [series_key |-> key, metric_key |-> row.metric_key,
                              dimensions |-> row.dimensions, points |-> <<point>>])
                 ELSE [series_map EXCEPT ![CHOOSE i \in at : TRUE].points =
                                             Append(@, point)]
         IN append_timeseries_rows(next, Tail(rows), labels)

\* _finalize_series(series_map, metric_order, group_by_labels): the points of every
\* entry sorted by time_start_ts, then the entries sorted by their key.
finalize_series(series_map, order, labels) ==
    LET series ==
            [n \in 1..Len(series_map) |->
                [ metric_key |-> series_map[n].metric_key,
                  dimensions |-> series_map[n].dimensions,
                  points |->
                      LET points == series_map[n].points
                      IN stable_sort(points,
                             {p \in (1..Len(points)) \X (1..Len(points)) :
                                 points[p[1]].time_start_ts
                                     < points[p[2]].time_start_ts}) ]]
    IN stable_sort(series, group_key_less(series, order, labels))

\* The orders a store may hand a set of rows in.
Perms(S) == {f \in [1..Cardinality(S) -> S] : \A i, j \in 1..Cardinality(S) : f[i] = f[j] => i = j}

\* Requests over the metrics of the compose files, in the orders a caller may list
\* them, a repeated key included.
MetricKeyLists == {<<"m1">>, <<"m1", "m2">>, <<"m2", "m1">>, <<"m2", "m1", "m2">>}

GroupByLists == {<<>>, <<"country">>, <<"country", "plan">>, <<"plan", "country">>}

\* post_aggregate, lines 338-380: the rows of the statements, in any order the store
\* gives them, then _finalize_groups.
FinalizeGroups ==
    /\ up[1].pc \in Terminal
    /\ gr = NoCall
    /\ \E metric_keys \in MetricKeyLists, group_by \in GroupByLists :
          LET payload == RangePayload(metric_keys, group_by, 1, 3)
              res == aggregate_response(db, payload)
          IN /\ res.status = 200
             /\ \E items \in Perms(res.groups) :
                   gr' = [fn |-> "finalize_groups", store |-> db,
                          metric_keys |-> metric_keys, labels |-> group_by,
                          items |-> items, status |-> 200,
                          out |-> finalize_groups(items, metric_order(metric_keys),
                                                  group_by)]
    /\ UNCHANGED <<db, up, rd, hist, dash>>

MaxSeriesRows == 3

\* Rows of the timeseries statements: metric, country and time bucket.
SeriesRows ==
    {[metric_key |-> metric_key, dimensions |-> [country |-> country],
      time_start_ts |-> time_start_ts, value |-> 5] :
        metric_key \in {"m1", "m2"}, country \in {"US", "CA"}, time_start_ts \in 1..2}

\* post_timeseries, lines 235-242: the rows of the statements in any order, through
\* _append_timeseries_rows and _finalize_series.
FinalizeSeries ==
    /\ up[1].pc \in Terminal
    /\ gr = NoCall
    /\ \E metric_keys \in MetricKeyLists \ {<<"m1">>},
          rows \in SeqsUpTo(SeriesRows, MaxSeriesRows) :
          /\ \A i, j \in 1..Len(rows) : rows[i] = rows[j] => i = j
          /\ gr' = [fn |-> "finalize_series", store |-> db,
                    metric_keys |-> metric_keys, labels |-> <<"country">>,
                    items |-> rows, status |-> 200,
                    out |-> finalize_series(
                                append_timeseries_rows(<<>>, rows, <<"country">>),
                                metric_order(metric_keys), <<"country">>)]
    /\ UNCHANGED <<db, up, rd, hist, dash>>

\* The group-by values of an item, in the order of the labels.
dimension_values(item, labels) == [n \in 1..Len(labels) |-> item.dimensions[labels[n]]]

\* a <= b for two tuples of strings of one length, lexicographically.
tuple_leq(a, b) ==
    \/ a = b
    \/ \E n \in 1..Len(a) :
          /\ SubSeq(a, 1, n - 1) = SubSeq(b, 1, n - 1)
          /\ IndexOf(ValueOrder, a[n]) < IndexOf(ValueOrder, b[n])

\* The items are in the order of (a position of their metric key in metric_keys,
\* their group-by values in label order).
ordered_as_requested(out, metric_keys, labels) ==
    \E pos \in [Range(metric_keys) -> 1..Len(metric_keys)] :
        /\ \A key \in Range(metric_keys) : metric_keys[pos[key]] = key
        /\ \A i \in 1..(Len(out) - 1) :
              \/ pos[out[i].metric_key] < pos[out[i + 1].metric_key]
              \/ /\ pos[out[i].metric_key] = pos[out[i + 1].metric_key]
                 /\ tuple_leq(dimension_values(out[i], labels),
                              dimension_values(out[i + 1], labels))

\* C14: whatever order the rows arrive in, the groups of an aggregate response are
\* the arrived rows ordered by (position of the metric key in metric_keys, group-by
\* values in group_by order); the series of a timeseries response are ordered by the
\* same key, carry every arrived point once, and their points ascend in time.
C14_ResponseOrder ==
    /\ gr.fn = "finalize_groups" =>
          /\ Len(gr.out) = Len(gr.items)
          /\ Range(gr.out) = Range(gr.items)
          /\ ordered_as_requested(gr.out, gr.metric_keys, gr.labels)
    /\ gr.fn = "finalize_series" =>
          /\ ordered_as_requested(gr.out, gr.metric_keys, gr.labels)
          /\ \A n \in 1..Len(gr.out) :
                /\ \A i \in 1..(Len(gr.out[n].points) - 1) :
                      gr.out[n].points[i].time_start_ts
                          <= gr.out[n].points[i + 1].time_start_ts
                /\ \A m \in 1..Len(gr.out) :
                      (/\ gr.out[m].metric_key = gr.out[n].metric_key
                       /\ gr.out[m].dimensions = gr.out[n].dimensions) => m = n
                /\ {p.time_start_ts : p \in Range(gr.out[n].points)} =
                       {r.time_start_ts : r \in {x \in Range(gr.items) :
                           /\ x.metric_key = gr.out[n].metric_key
                           /\ x.dimensions = gr.out[n].dimensions}}

\* The rows of two metrics arrived with the metric listed second first, and the
\* groups of one metric out of the order of their values.
C14_Witness ==
    /\ gr.fn = "finalize_groups"
    /\ gr.metric_keys = <<"m2", "m1">>
    /\ gr.labels = <<"country">>
    /\ Len(gr.items) = 4
    /\ gr.items[1].metric_key = "m1"
    /\ gr.items[1].dimensions.country = "US"
    /\ gr.out[1].metric_key = "m2"
    /\ gr.out[2].dimensions.country = "CA"

\* The value of an aggregate over no row.
Null == "null"

\* post_topk, lines 414-436: the rows of the statement before ORDER BY and LIMIT: one
\* row per combination of group-by values, and with no group-by one row in any case.
topk_rows(s, payload, metric_id, source_grain, aggregation, labels, dimension_ids) ==
    LET st == [aggregation |-> aggregation, source_grain |-> source_grain,
               metric_ids |-> {metric_id}]
        meta == {[metric_key |-> payload.metric_key, metric_id |-> metric_id,
                  aggregation |-> aggregation]}
        rows == aggregate_rows(s, st, payload, labels, dimension_ids, meta)
    IN IF labels # <<>>
       THEN {[dimensions |-> r.dimensions, value |-> r.value] : r \in rows}
       ELSE {[dimensions |-> <<>>,
              value |-> IF rows = {} THEN Null ELSE (CHOOSE r \in rows : TRUE).value]}

\* A plausible slip: the order of the request is ignored, the rows always ascend.
topk_ordered_ascending(rows, order) ==
    \A i \in 1..(Len(rows) - 1) : rows[i].value <= rows[i + 1].value

\* ORDER BY value ASC or DESC: rows is in an order the store may return.
topk_ordered(rows, order) ==
    \A i \in 1..(Len(rows) - 1) :
        IF order = "asc" THEN rows[i].value <= rows[i + 1].value
        ELSE rows[i].value >= rows[i + 1].value

\* post_topk up to the statement: the status of the request and the rows the
\* statement ranges over.  A negative LIMIT is an error of the store.
topk_statement(s, payload) ==
    LET requested_grain == normalize_grain(payload.grain)
        metrics == {r \in s.metric_definition : r.metric_key = payload.metric_key}
        metric == CHOOSE r \in metrics : TRUE
        source_grains ==
            resolve_metric_source_grains(s.metric_series, {metric.metric_id},
                                         requested_grain)
        source_grain == IF source_grains = {} THEN requested_grain
                        ELSE (CHOOSE g \in source_grains : TRUE).grain
        aggregation == IF metric.aggregation = NA THEN "sum"
                       ELSE lower_aggregation(metric.aggregation)
        filter_pairs == build_filter_pairs(payload.filters)
        labels == DictFromKeys(payload.group_by)
        dimensions == resolve_dimension_ids(s.dimension_definition, labels)
    IN IF ~is_supported_grain(requested_grain) THEN [status |-> 400, rows |-> {}]
       ELSE IF metrics = {} THEN [status |-> 404, rows |-> {}]
       ELSE IF filter_pairs.status # 200 THEN [status |-> 500, rows |-> {}]
       ELSE IF dimensions.status # 200 THEN [status |-> 404, rows |-> {}]
       ELSE IF payload.k < 0 THEN [status |-> 500, rows |-> {}]
       ELSE [status |-> 200,
             rows |-> topk_rows(s, payload, metric.metric_id, source_grain, aggregation,
                                labels, dimensions.found)]

\* Top-K requests: a known and an unknown metric, known and unknown group-by keys,
\* limits from -1 to MaxK, both orders, a range with data and an empty one.
TopKPayloads ==
    {[metric_key |-> metric_key, grain |-> "day", start_time |-> range[1],
      end_time |-> range[2], group_by |-> group_by, filters |-> <<>>, k |-> k,
      order |-> order] :
        metric_key \in {"m1", "m3"},
        range \in {<<1, 3>>, <<2, 2>>},
        group_by \in {<<>>, <<"country">>, <<"country", "plan">>, <<"zone">>},
        k \in (-1)..MaxK,
        order \in {"asc", "desc"}}

\* POST /v1/query/topk: ORDER BY value, LIMIT k, in any order of the ties.
TopK ==
    /\ up[1].pc \in Terminal
    /\ gr = NoCall
    /\ \E payload \in TopKPayloads :
          LET res == topk_statement(db, payload)
          IN \E rows \in Perms(res.rows) :
                /\ topk_ordered(rows, payload.order)
                /\ gr' = [fn |-> "post_topk", store |-> db, payload |-> payload,
                          status |-> res.status, groups |-> res.rows,
                          out |-> SubSeq(rows, 1, Min({payload.k, Len(rows)}))]
    /\ UNCHANGED <<db, up, rd, hist, dash>>

(***************************************************************************)
(* build_time_bucket (app/db/helpers.py) on timestamps that are whole       *)
(* numbers of days since Monday 2018-01-01.                                *)
(***************************************************************************)
MaxDay == 1470

\* January 1 of 2018, 2019, 2020 (a leap year), 2021, 2022 and 2023, in days.
YearStart == <<0, 365, 730, 1096, 1461, 1826>>

\* The calendar year of a day, as an index of YearStart.
year_of(day) == Max({y \in 1..Len(YearStart) : YearStart[y] <= day})

\* date_trunc('week', column): the Monday of the day's week.
date_trunc_week(day) == day - (day % 7)

\* extract(week from column): the week's Thursday decides the year the week is
\* numbered in; its number is the count of Thursdays of that year up to it.
extract_week(day) ==
    LET thursday == date_trunc_week(day) + 3
    IN ((thursday - YearStart[year_of(thursday)]) \div 7) + 1

\* A plausible slip: two-week buckets counted from a fixed epoch.
build_time_bucket_epoch(grain, column) ==
    CASE grain = "biweek" -> column - (column % 14)
      [] grain = "week" -> date_trunc_week(column)
      [] OTHER -> column

\* build_time_bucket(grain, column) for the grains day, week and biweek.
build_time_bucket(grain, column) ==
    CASE grain = "biweek" -> date_trunc_week(column) - ((extract_week(column) % 2) * 7)
      [] grain = "week" -> date_trunc_week(column)
      [] OTHER -> column

(***************************************************************************)
(* POST /v1/query/timeseries (app/api/routes/v1/queries.py), every         *)
(* statement of the request reading the same store.                        *)
(***************************************************************************)
\* The rows one timeseries statement returns on store s: one per metric id, time
\* bucket and group-by values, carrying the metric key of the metric id.
timeseries_rows(s, st, payload, labels, dimension_ids, metric_meta) ==
    LET series == {sr \in s.metric_series :
                      sr.metric_id \in st.metric_ids /\ sr.grain = st.source_grain}
        joined ==
            UNION {UNION {{[ obs |-> o, metric_id |-> sr.metric_id, dimensions |-> f,
                             time_start_ts |->
                                 build_time_bucket(normalize_grain(payload.grain),
                                                   o.time_start_ts) ] :
                              f \in group_dimensions(s, sr.set_id, labels, dimension_ids)} :
                          o \in {x \in s.metric_observation :
                                    /\ x.series_id = sr.series_id
                                    /\ x.time_start_ts >= payload.start_time
                                    /\ x.time_start_ts < payload.end_time}} :
                   sr \in series}
        groups == {[metric_id |-> j.metric_id, dimensions |-> j.dimensions,
                    time_start_ts |-> j.time_start_ts] : j \in joined}
        key_of(metric_id) == (CHOOSE m \in metric_meta : m.metric_id = metric_id).metric_key
    IN {[ metric_key |-> key_of(g.metric_id),
          dimensions |-> g.dimensions,
          time_start_ts |-> g.time_start_ts,
          value |-> aggregation_expression(st.aggregation,
                        {j.obs : j \in {x \in joined :
                            /\ x.metric_id = g.metric_id
                            /\ x.dimensions = g.dimensions
                            /\ x.time_start_ts = g.time_start_ts}}) ] :
           g \in {x \in groups : \E m \in metric_meta : m.metric_id = x.metric_id}}

\* post_timeseries up to the rows of its statements; groups holds the rows.
timeseries_response(s, payload) ==
    LET requested_grain == normalize_grain(payload.grain)
        metrics == resolve_metric_ids(s.metric_definition, payload.metric_keys)
        source_grains ==
            resolve_metric_source_grains(s.metric_series,
                {m.metric_id : m \in metrics.found}, requested_grain)
        labels == DictFromKeys(payload.group_by)
        dimensions == resolve_dimension_ids(s.dimension_definition, labels)
        statements == aggregate_statements(metrics.found, source_grains)
        filter_pairs == build_filter_pairs(payload.filters)
    IN IF ~is_supported_grain(requested_grain)
       THEN QueryResponse(400, "unsupported grain", {})
       ELSE IF metrics.status # 200 THEN QueryResponse(metrics.status, metrics.detail, {})
       ELSE IF dimensions.status # 200
       THEN QueryResponse(dimensions.status, dimensions.detail, {})
       ELSE IF filter_pairs.status # 200
       THEN QueryResponse(filter_pairs.status, "Internal Server Error", {})
       ELSE QueryResponse(200, "",
                UNION {timeseries_rows(s, st, payload, labels, dimensions.found,
                                       metrics.found) : st \in statements})

\* post_timeseries on one of the payloads: the rows in any order that ORDER BY
\* time_bucket allows, through _append_timeseries_rows and _finalize_series.
Timeseries(payloads) ==
    /\ up[1].pc \in Terminal
    /\ gr = NoCall
    /\ \E payload \in payloads :
          LET res == timeseries_response(db, payload)
              labels == DictFromKeys(payload.group_by)
          IN \E rows \in Perms(res.groups) :
                /\ \A i, j \in 1..Len(rows) :
                       i < j => rows[i].time_start_ts <= rows[j].time_start_ts
                /\ gr' = [fn |-> "post_timeseries", store |-> db, payload |-> payload,
                          status |-> res.status, items |-> rows,
                          out |-> finalize_series(
                                      append_timeseries_rows(<<>>, rows, labels),
                                      metric_order(payload.metric_keys), labels)]
    /\ UNCHANGED <<db, up, rd, hist, dash>>

\* post_aggregate on one of the payloads: the rows in any order, through
\* _finalize_groups.
Aggregate(payloads) ==
    /\ up[1].pc \in Terminal
    /\ gr = NoCall
    /\ \E payload \in payloads :
          LET res == aggregate_response(db, payload)
              labels == DictFromKeys(payload.group_by)
          IN \E items \in Perms(res.groups) :
                gr' = [fn |-> "post_aggregate", store |-> db, payload |-> payload,
                       status |-> res.status, items |-> items,
                       out |-> finalize_groups(items, metric_order(payload.metric_keys),
                                               labels)]
    /\ UNCHANGED <<db, up, rd, hist, dash>>

\* Timeseries requests over the compose files.
ComposePayloads ==
    {RangePayload(metric_keys, group_by, 1, 3) :
        metric_keys \in MetricKeyLists, group_by \in GroupByLists}

InitCompose ==
    /\ db = EmptyDb
    /\ up = [t \in Slots |-> IdleUpload]
    /\ rd = IdleReader
    /\ hist = NoHistory
    /\ dash = NoDashboards
    /\ gr = NoCall

NextCompose ==
    \/ \E f \in ComposeFiles : gr = NoCall /\ ReceiveUpload(1, f)
    \/ Validate(1)
    \/ UpsertMetricDefinitions(1)
    \/ UpsertDimensionDefinition(1)
    \/ InsertDimensionValues(1)
    \/ InsertDimensionSets(1)
    \/ InsertDimensionSetValues(1)
    \/ InsertMetricSeries(1)
    \/ InsertObservations(1)
    \/ Commit(1)
    \/ ApplyDimensionPairs
    \/ ApplyDimensionValueFilters
    \/ FinalizeGroups
    \/ FinalizeSeries
    \/ TopK
    \/ Timeseries(ComposePayloads)

SpecCompose == InitCompose /\ [][NextCompose]_vars

\* C15: a top-K request with limit K over G result groups answers min(K, G) of the
\* groups, each once, in descending value order for desc and ascending for asc, and
\* no group left out is more extreme in that direction than a returned one.
C15_TopK ==
    (gr.fn = "post_topk" /\ gr.status = 200) =>
        /\ Len(gr.out) = Min({gr.payload.k, Cardinality(gr.groups)})
        /\ Range(gr.out) \subseteq gr.groups
        /\ \A i, j \in 1..Len(gr.out) : gr.out[i] = gr.out[j] => i = j
        /\ \A i \in 1..(Len(gr.out) - 1) :
              /\ gr.payload.order = "desc" => gr.out[i].value >= gr.out[i + 1].value
              /\ gr.payload.order = "asc" => gr.out[i].value <= gr.out[i + 1].value
        /\ \A g \in gr.groups \ Range(gr.out) :
              \A o \in Range(gr.out) :
                  /\ gr.payload.order = "desc" => g.value <= o.value
                  /\ gr.payload.order = "asc" => g.value >= o.value

\* Three groups of values 5, 5 and 7, limit 2, descending: the 7 first, one of the
\* two 5s returned and the other left out.
C15_Witness ==
    /\ gr.fn = "post_topk"
    /\ gr.status = 200
    /\ gr.payload.k = 2
    /\ gr.payload.order = "desc"
    /\ Cardinality(gr.groups) = 3
    /\ Len(gr.out) = 2
    /\ gr.out[1].value = 7
    /\ gr.out[2].value = 5
    /\ \E g \in gr.groups \ Range(gr.out) : g.value = 5

\* C21 as claimed: in every state reached by uploads, no two dimension_set_value
\* rows share set_id and dimension_id.
C21_AsClaimed ==
    \A x, y \in db.dimension_set_value :
        (x.set_id = y.set_id /\ x.dimension_id = y.dimension_id) => x = y

(***************************************************************************)
(* Specification of the catalog fields of an upload: files of two rows of  *)
(* one metric key whose second row respells one catalog cell, and one-row  *)
(* files with a blank required cell; one upload at a time.                 *)
(***************************************************************************)
CatalogFields ==
    {"metric_name", "metric_description", "metric_type", "unit", "directionality",
     "aggregation"}

\* The first row of a catalog file: every catalog cell filled.
CatalogRow ==
    [BaseRow(<<"country">>) EXCEPT !.metric_description = "a count", !.unit = "usd",
                                   !.directionality = "up"]

\* The spellings the second row may give to one catalog cell: the first row's own
\* with other whitespace or case, a different value, or blank.
CatalogSpellings ==
    [ metric_name |-> {"Signups ", "signups", " "},
      metric_description |-> {" a count", "A count", NA},
      metric_type |-> {" Gauge ", "counter", NA},
      unit |-> {"usd ", "eur", " "},
      directionality |-> {"Up", "down", NA},
      aggregation |-> {"SUM", "max", " "} ]

CatalogFiles ==
    UNION {{[cols |-> <<"country">>, reserved |-> REQUIRED_UPLOAD_COLUMNS,
             rows |-> <<CatalogRow,
                        [CatalogRow EXCEPT ![c] = v, !.time_start_ts = 2]>>] :
               v \in CatalogSpellings[c]} : c \in CatalogFields}
    \cup {[cols |-> <<"country">>, reserved |-> REQUIRED_UPLOAD_COLUMNS,
           rows |-> <<[CatalogRow EXCEPT ![c] = v]>>] :
             c \in CatalogFields, v \in {NA, " "}}

NextCatalog ==
    \/ \E f \in CatalogFiles : ReceiveUpload(1, f)
    \/ Validate(1)
    \/ UpsertMetricDefinitions(1)
    \/ UpsertDimensionDefinition(1)
    \/ InsertDimensionValues(1)
    \/ InsertDimensionSets(1)
    \/ InsertDimensionSetValues(1)
    \/ InsertMetricSeries(1)
    \/ InsertObservations(1)
    \/ Commit(1)

SpecCatalog == Init /\ [][NextCatalog]_vars

\* The distinct non-blank values the rows of one metric key carry in a field,
\* compared after trimming and, for the three enumerated fields, without case.
carried_values(file, metric_key, field) ==
    {normalize_field(field, file.rows[i][field]) :
        i \in {j \in RowIdx(file) : file.rows[j].metric_key = metric_key}} \ {NA}

catalog_conflict(file) ==
    \E k \in Range(GroupKeys(file)) :
        \/ \E c \in CatalogFields : Cardinality(carried_values(file, k, c)) > 1
        \/ \E c \in {"metric_name", "metric_type", "aggregation"} :
               carried_values(file, k, c) = {}

\* C22: an upload in which some metric key carries two distinct non-blank values of
\* a catalog field, or no non-blank metric_name, metric_type or aggregation, is
\* answered 400 with nothing written; an upload whose cells of one key differ only
\* in surrounding whitespace (and, for metric_type, aggregation and directionality,
\* in case) is not rejected.
C22_CatalogConflictRejected ==
    \A t \in Slots :
        LET file == up[t].file
        IN up[t].pc \notin {"idle", "validate"} =>
              /\ catalog_conflict(file) =>
                    /\ up[t].pc = "rejected"
                    /\ up[t].resp.status = 400
                    /\ up[t].ins = NoWrites
                    /\ up[t].upd = NoUpdates
                    /\ db = up[t].pre
              /\ (/\ ~catalog_conflict(file)
                  /\ \A i \in RowIdx(file) : \A c \in REQUIRED_UPLOAD_VALUES :
                         str_strip(file.rows[i][c]) # NA)
                    => up[t].pc # "rejected"

\* An upload rejected for two directionality values and, before it, an accepted
\* upload whose two rows spell the aggregation "sum" and "SUM".
C22_Witness ==
    /\ up[1].pc = "rejected"
    /\ up[1].resp.status = 400
    /\ Cardinality(carried_values(up[1].file, "m1", "directionality")) = 2
    /\ \E f \in hist.accepted :
           {f.rows[i].aggregation : i \in RowIdx(f)} = {"sum", "SUM"}

(***************************************************************************)
(* Specification of build_time_bucket alone: every timestamp of four       *)
(* calendar years, then one call.                                          *)
(***************************************************************************)
InitBucket ==
    /\ db = EmptyDb
    /\ up = [t \in Slots |-> IdleUpload]
    /\ rd = IdleReader
    /\ hist = NoHistory
    /\ dash = NoDashboards
    /\ gr \in [fn : {"build_time_bucket"}, pc : {"call"}, grain : {"week", "biweek"},
               column : 0..MaxDay, out : {0}]

BuildTimeBucket ==
    /\ gr.pc = "call"
    /\ gr' = [gr EXCEPT !.pc = "done", !.out = build_time_bucket(gr.grain, gr.column)]
    /\ UNCHANGED <<db, up, rd, hist, dash>>

NextBucket == BuildTimeBucket

SpecBucket == InitBucket /\ [][NextBucket]_vars

\* The Monday that opens ISO week 1 of a year: the week that contains January 4.
iso_year_start(y) == date_trunc_week(YearStart[y] + 3)

\* The ISO week number of a day: weeks are counted from the latest week 1 that has
\* begun.
iso_week(day) ==
    LET y == Max({x \in 1..Len(YearStart) : iso_year_start(x) <= day})
    IN ((date_trunc_week(day) - iso_year_start(y)) \div 7) + 1

\* C26: the biweek bucket of a timestamp is the Monday of its ISO week when the ISO
\* week number is even and the Monday before when it is odd; the bucket is a Monday
\* and every timestamp of the same ISO week has the same bucket.
C26_BiweekBucket ==
    (gr.pc = "done" /\ gr.grain = "biweek") =>
        LET monday == date_trunc_week(gr.column)
        IN /\ gr.out = IF iso_week(gr.column) % 2 = 0 THEN monday ELSE monday - 7
           /\ gr.out % 7 = 0
           /\ \A day \in monday..(monday + 6) :
                  build_time_bucket("biweek", day) = gr.out

\* Friday 2021-01-01 lies in ISO week 53 of 2020, which began on day 1092; its
\* bucket is the Monday of week 52.
C26_Witness ==
    /\ gr.pc = "done"
    /\ gr.grain = "biweek"
    /\ gr.column = 1096
    /\ iso_week(gr.column) = 53
    /\ gr.out = 1085

(***************************************************************************)
(* Specification of the series of a response: two series of one metric     *)
(* whose values of the dimensions a and b contain the separators of the    *)
(* series key, told apart by country; then one query.                      *)
(***************************************************************************)
SeriesFiles ==
    { [cols |-> <<"a", "b", "country">>, reserved |-> REQUIRED_UPLOAD_COLUMNS,
       rows |-> << ComposeRow("m1", <<"1|b=2", "3", "US">>, 1, "5"),
                   ComposeRow("m1", <<"1", "2|b=3", "CA">>, 1, "7") >>],
      [cols |-> <<"a", "b", "country">>, reserved |-> REQUIRED_UPLOAD_COLUMNS,
       rows |-> << ComposeRow("m1", <<"1", "2", "US">>, 2, "5"),
                   ComposeRow("m1", <<"1", "3", "US">>, 2, "7") >>],
      [cols |-> <<"country">>, reserved |-> REQUIRED_UPLOAD_COLUMNS,
       rows |-> << ComposeRow("m2", <<"US">>, 1, "5"),
                   ComposeRow("m2", <<"US">>, 2, "7") >>] }

SeriesPayloads ==
    {RangePayload(metric_keys, group_by, 1, 3) :
        metric_keys \in {<<"m1">>, <<"m1", "m1">>, <<"m2", "m1", "m2">>},
        group_by \in {<<>>, <<"a">>, <<"a", "b">>, <<"country">>}}

NextSeries ==
    \/ \E f \in SeriesFiles : gr = NoCall /\ ReceiveUpload(1, f)
    \/ Validate(1)
    \/ UpsertMetricDefinitions(1)
    \/ UpsertDimensionDefinition(1)
    \/ InsertDimensionValues(1)
    \/ InsertDimensionSets(1)
    \/ InsertDimensionSetValues(1)
    \/ InsertMetricSeries(1)
    \/ InsertObservations(1)
    \/ Commit(1)
    \/ Timeseries(SeriesPayloads)
    \/ Aggregate(SeriesPayloads)

SpecSeries == InitCompose /\ [][NextSeries]_vars

\* C23 as claimed: in an aggregate response no two groups have the same metric key
\* and group-by values; in a timeseries response no two series have the same metric
\* key and dimension values, and no series has two points of one time bucket.
C23_AsClaimed ==
    /\ (gr.fn = "post_aggregate" /\ gr.status = 200) =>
           \A i, j \in 1..Len(gr.out) :
               (/\ gr.out[i].metric_key = gr.out[j].metric_key
                /\ gr.out[i].dimensions = gr.out[j].dimensions) => i = j
    /\ (gr.fn = "post_timeseries" /\ gr.status = 200) =>
           /\ \A i, j \in 1..Len(gr.out) :
                  (/\ gr.out[i].metric_key = gr.out[j].metric_key
                   /\ gr.out[i].dimensions = gr.out[j].dimensions) => i = j
           /\ \A n \in 1..Len(gr.out) :
                  \A i, j \in 1..Len(gr.out[n].points) :
                      gr.out[n].points[i].time_start_ts
                          = gr.out[n].points[j].time_start_ts => i = j

\* The values the dimension set of a series holds for a dimension key.
series_dimension_values(s, sr, key) ==
    {v.value : v \in {x \in s.dimension_value :
        \E sv \in s.dimension_set_value, d \in s.dimension_definition :
            /\ sv.set_id = sr.set_id
            /\ sv.value_id = x.value_id
            /\ sv.dimension_id = d.dimension_id
            /\ d.dimension_key = key}}

\* The observations of a metric in the times T whose series' dimension set has, for
\* every label, the value d gives it.
contributing(s, metric_key, labels, d, T) ==
    {o \in s.metric_observation :
        /\ o.time_start_ts \in T
        /\ \E sr \in s.metric_series, m \in s.metric_definition :
              /\ sr.series_id = o.series_id
              /\ m.metric_id = sr.metric_id
              /\ m.metric_key = metric_key
              /\ \A key \in Range(labels) :
                     d[key] \in series_dimension_values(s, sr, key)}

\* The assignments of stored values to the labels.
label_values(s, labels) == [Range(labels) -> {v.value : v \in s.dimension_value}]

\* C24: with a non-empty group_by, the groups of an aggregate or top-K response and
\* the points of a timeseries response are exactly the sums over the observations
\* whose series has a value for every group-by dimension (the metrics of the
\* requests are summed and stored at the requested grain); observations of a series
\* that lacks a group-by dimension are in no group.
C24_GroupByInnerJoin ==
    /\ (gr.fn = "finalize_groups" /\ gr.labels # <<>>) =>
           Range(gr.out) =
               {[metric_key |-> q[1], dimensions |-> q[2],
                 value |-> SumValues(contributing(gr.store, q[1], gr.labels, q[2],
                                                  1..2))] :
                   q \in {x \in Range(gr.metric_keys)
                                 \X label_values(gr.store, gr.labels) :
                             contributing(gr.store, x[1], gr.labels, x[2], 1..2) # {}}}
    /\ (gr.fn = "post_topk" /\ gr.status = 200 /\ gr.payload.group_by # <<>>) =>
           LET T == {t \in 1..2 : gr.payload.start_time <= t /\ t < gr.payload.end_time}
               labels == gr.payload.group_by
           IN gr.groups =
                  {[dimensions |-> d,
                    value |-> SumValues(contributing(gr.store, gr.payload.metric_key,
                                                     labels, d, T))] :
                      d \in {x \in label_values(gr.store, labels) :
                                contributing(gr.store, gr.payload.metric_key,
                                             labels, x, T) # {}}}
    /\ (gr.fn = "post_timeseries" /\ gr.status = 200 /\ gr.payload.group_by # <<>>) =>
           LET labels == gr.payload.group_by
               keys == Range(gr.payload.metric_keys)
           IN {[metric_key |-> gr.out[n].metric_key, dimensions |-> gr.out[n].dimensions,
                time_start_ts |-> gr.out[n].points[i].time_start_ts,
                value |-> gr.out[n].points[i].value] :
                   <<n, i>> \in {p \in (1..Len(gr.out)) \X (1..4) :
                                    p[2] <= Len(gr.out[p[1]].points)}}
              = {[metric_key |-> q[1], dimensions |-> q[2], time_start_ts |-> q[3],
                  value |-> SumValues(contributing(gr.store, q[1], labels, q[2],
                                                   {q[3]}))] :
                    q \in {x \in keys \X label_values(gr.store, labels) \X (1..2) :
                              contributing(gr.store, x[1], labels, x[2], {x[3]}) # {}}}

\* An aggregate of m1 by country and plan on a store where m1 has a series with no
\* plan: three groups, whose values add up to 17, while m1's observations add up
\* to 24.
C24_Witness ==
    /\ gr.fn = "finalize_groups"
    /\ gr.metric_keys = <<"m1">>
    /\ gr.labels = <<"country", "plan">>
    /\ Len(gr.out) = 3
    /\ gr.out[1].value + gr.out[2].value + gr.out[3].value = 17
    /\ SumValues(contributing(gr.store, "m1", <<>>, <<>>, 1..2)) = 24
    /\ \E sr \in gr.store.metric_series :
           series_dimension_values(gr.store, sr, "plan") = {}

(***************************************************************************)
(* Specification of the aggregation function of a metric: uploads that     *)
(* give metric m1 one of the spellings of an aggregation and the values 5  *)
(* and 7 on two days of one week, then one query of each kind.             *)
(***************************************************************************)
AggregationSpellings == {"sum", "SUM", "avg", "AVG", "min", "max", "Max", "count", "median"}

AggregationFiles ==
    {[cols |-> <<"country">>, reserved |-> REQUIRED_UPLOAD_COLUMNS,
      rows |-> <<[ComposeRow("m1", <<"US">>, 1, "5") EXCEPT !.aggregation = a],
                 [ComposeRow("m1", <<"US">>, 2, "7") EXCEPT !.aggregation = a]>>] :
        a \in AggregationSpellings}

\* Requests for m1 over both days: by day, and by week, which puts the two
\* observations in one time bucket.
AggregationPayloads ==
    {[RangePayload(<<"m1">>, <<>>, 1, 3) EXCEPT !.grain = grain] : grain \in {"day", "week"}}

NextAggregation ==
    \/ \E f \in AggregationFiles : gr = NoCall /\ ReceiveUpload(1, f)
    \/ Validate(1)
    \/ UpsertMetricDefinitions(1)
    \/ UpsertDimensionDefinition(1)
    \/ InsertDimensionValues(1)
    \/ InsertDimensionSets(1)
    \/ InsertDimensionSetValues(1)
    \/ InsertMetricSeries(1)
    \/ InsertObservations(1)
    \/ Commit(1)
    \/ Aggregate(AggregationPayloads)
    \/ Timeseries(AggregationPayloads)
    \/ TopK

SpecAggregation == InitCompose /\ [][NextAggregation]_vars

\* The value the claim gives a metric of catalog aggregation a over observations O:
\* the average (sum and count), least or greatest value when a, without regard to
\* case, is avg, min or max, and the sum for every other a.
claimed_value(a, O) ==
    LET name == str_lower(a)
    IN IF name = "avg" THEN <<SumValues(O), Cardinality(O)>>
       ELSE IF name = "min" THEN Min({o.value_num : o \in O})
       ELSE IF name = "max" THEN Max({o.value_num : o \in O})
       ELSE SumValues(O)

\* The catalog aggregation of a metric key in store s.
catalog_aggregation(s, metric_key) ==
    (CHOOSE m \in s.metric_definition : m.metric_key = metric_key).aggregation

\* C25: the value of an aggregate group, of a timeseries point and of a top-K item of
\* a metric is the average, minimum or maximum of the observations when the catalog
\* aggregation is avg, min or max without regard to case, and their sum for every
\* other aggregation, count included; the three queries agree.
C25_AggregationChoice ==
    LET s == gr.store
        O == contributing(s, "m1", <<>>, <<>>, 1..2)
        v == claimed_value(catalog_aggregation(s, "m1"), O)
    IN /\ (gr.fn = "post_aggregate" /\ gr.status = 200 /\ O # {}) =>
              /\ Len(gr.out) = 1
              /\ gr.out[1].value = v
       /\ (/\ gr.fn = "post_timeseries" /\ gr.status = 200 /\ O # {}
           /\ gr.payload.grain = "week") =>
              /\ Len(gr.out) = 1
              /\ Len(gr.out[1].points) = 1
              /\ gr.out[1].points[1].value = v
       /\ (/\ gr.fn = "post_topk" /\ gr.status = 200 /\ O # {}
           /\ gr.payload.metric_key = "m1" /\ gr.payload.group_by = <<>>
           /\ gr.payload.start_time = 1 /\ gr.payload.end_time = 3) =>
              gr.groups = {[dimensions |-> <<>>, value |-> v]}

\* A top-K request on a metric uploaded with the aggregation spelled Max answers
\* 7, the greater of 5 and 7.
C25_Witness ==
    /\ gr.fn = "post_topk"
    /\ gr.status = 200
    /\ gr.payload.group_by = <<>>
    /\ gr.payload.k = 1
    /\ \E f \in hist.accepted : f.rows[1].aggregation = "Max"
    /\ Len(gr.out) = 1
    /\ gr.out[1].value = 7

(***************************************************************************)
(* Specification of the dashboard requests, one at a time: up to MaxOps    *)
(* requests on up to MaxDashboards dashboards.                             *)
(***************************************************************************)
DashboardIds == 1..MaxDashboards

Tile(tile_id, title) == [id |-> tile_id, title |-> title]

CreatePayloads ==
    {[name |-> "A", description |-> None, tiles |-> <<>>],
     [name |-> "A", description |-> "about", tiles |-> <<Tile("t1", "x")>>]}

UpdatePayloads ==
    {[name |-> "B", description |-> None, tiles |-> <<Tile("t2", "x")>>]}

TilePayloads == {Tile("t1", "y"), Tile("t2", "y")}

LayoutItems ==
    {<<>>, <<[id |-> "t1", layout |-> 1]>>, <<[id |-> "t3", layout |-> 1]>>}

MetadataPayloads ==
    {[fields_set |-> {}, name |-> None, description |-> None],
     [fields_set |-> {"name"}, name |-> "B", description |-> None],
     [fields_set |-> {"name"}, name |-> None, description |-> None],
     [fields_set |-> {"description"}, name |-> None, description |-> "draft"]}

\* One request, from its arrival to its response.
Served(op, dashboard_id, arg, res) ==
    /\ dash.ops < MaxOps
    /\ \A t \in Slots : dash.tx[t].pc = "idle"
    /\ dash' = [dash EXCEPT !.tables = res.tables,
                            !.ops = @ + 1,
                            !.last = [op |-> op, status |-> res.status,
                                      dashboard_id |-> dashboard_id,
                                      pre |-> dash.tables, out |-> res.out,
                                      arg |-> arg]]
    /\ UNCHANGED <<db, up, rd, hist, gr>>

CreateDashboard ==
    /\ dash.created < MaxDashboards
    /\ dash.ops < MaxOps
    /\ \A t \in Slots : dash.tx[t].pc = "idle"
    /\ \E payload \in CreatePayloads :
          LET res == create_dashboard(dash.tables, dash.created + 1, User, payload)
          IN dash' = [dash EXCEPT !.tables = res.tables,
                                  !.created = @ + 1,
                                  !.ops = @ + 1,
                                  !.last = [op |-> "create_dashboard",
                                            status |-> res.status,
                                            dashboard_id |-> dash.created + 1,
                                            pre |-> dash.tables, out |-> res.out,
                                            arg |-> payload]]
    /\ UNCHANGED <<db, up, rd, hist, gr>>

GetDashboard ==
    \E d \in DashboardIds :
        Served("get_dashboard", d, None, get_dashboard(dash.tables, d, User))

UpdateDashboard ==
    \E d \in DashboardIds, payload \in UpdatePayloads :
        Served("update_dashboard", d, payload,
               update_dashboard(dash.tables, d, User, payload))

AddTileToDraft ==
    \E d \in DashboardIds, payload \in TilePayloads :
        Served("add_tile_to_draft", d, payload,
               add_tile_to_draft(dash.tables, d, User, payload))

UpdateTileInDraft ==
    \E d \in DashboardIds, payload \in TilePayloads, tile_id \in {"t1"} :
        Served("update_tile_in_draft", d, payload,
               update_tile_in_draft(dash.tables, d, User, tile_id, payload))

DeleteTileFromDraft ==
    \E d \in DashboardIds, tile_id \in {"t1", "t2"} :
        Served("delete_tile_from_draft", d, tile_id,
               delete_tile_from_draft(dash.tables, d, User, tile_id))

UpdateDraftLayout ==
    \E d \in DashboardIds, items \in LayoutItems :
        Served("update_draft_layout", d, items,
               update_draft_layout(dash.tables, d, User, items))

UpdateDraftMetadata ==
    \E d \in DashboardIds, payload \in MetadataPayloads :
        Served("update_draft_metadata", d, payload,
               update_draft_metadata(dash.tables, d, User, payload))

CommitDraft ==
    \E d \in DashboardIds :
        Served("commit_draft", d, None, commit_draft(dash.tables, d, User))

DeleteDraft ==
    \E d \in DashboardIds :
        Served("delete_draft", d, None, delete_draft(dash.tables, d, User))

DeleteDashboard ==
    \E d \in DashboardIds :
        Served("delete_dashboard", d, None, delete_dashboard(dash.tables, d, User))

NextDashboards ==
    \/ CreateDashboard
    \/ GetDashboard
    \/ UpdateDashboard
    \/ AddTileToDraft
    \/ UpdateTileInDraft
    \/ DeleteTileFromDraft
    \/ UpdateDraftLayout
    \/ UpdateDraftMetadata
    \/ CommitDraft
    \/ DeleteDraft
    \/ DeleteDashboard

SpecDashboards == Init /\ [][NextDashboards]_vars

\* The tile list of a dashboard version: tile id, position and config of each tile.
tile_list(T, dashboard_id, user_id, is_draft) ==
    {[tile_id |-> r.tile_id, position |-> r.position, config |-> r.config] :
        r \in tile_rows(T, dashboard_id, user_id, is_draft)}

\* Name and description of the row of a dashboard version.
metadata_of(T, dashboard_id, user_id, is_draft) ==
    {[name |-> r.name, description |-> r.description] :
        r \in dashboard_rows(T, dashboard_id, user_id, is_draft)}

\* C27: after a successful commit_draft the published name, description and tile
\* list are those the draft had before the commit, no draft row and no draft tile
\* is left, and the get_dashboard that follows answers the published version with
\* is_draft false; a commit_draft without a draft answers 404 and changes nothing.
C27_CommitDraft ==
    dash.last.op = "commit_draft" =>
        LET d == dash.last.dashboard_id
            pre == dash.last.pre
            T == dash.tables
            next == get_dashboard(T, d, User)
        IN /\ dashboard_rows(pre, d, User, TRUE) = {} =>
                  (dash.last.status = 404 /\ T = pre)
           /\ dash.last.status # 200 => T = pre
           /\ dash.last.status = 200 =>
                  /\ metadata_of(T, d, User, FALSE) = metadata_of(pre, d, User, TRUE)
                  /\ Cardinality(dashboard_rows(T, d, User, FALSE)) = 1
                  /\ tile_list(T, d, User, FALSE) = tile_list(pre, d, User, TRUE)
                  /\ dashboard_rows(T, d, User, TRUE) = {}
                  /\ tile_rows(T, d, User, TRUE) = {}
                  /\ next.status = 200
                  /\ next.out.is_draft = FALSE
                  /\ {[name |-> next.out.name, description |-> next.out.description]}
                         = metadata_of(pre, d, User, TRUE)
                  /\ Range(next.out.config.tiles)
                         = {r.config : r \in tile_list(pre, d, User, TRUE)}

\* A commit of a draft that was renamed and holds a tile the published version
\* did not.
C27_Witness ==
    /\ dash.last.op = "commit_draft"
    /\ dash.last.status = 200
    /\ metadata_of(dash.last.pre, 1, User, TRUE) # metadata_of(dash.last.pre, 1, User, FALSE)
    /\ tile_list(dash.last.pre, 1, User, TRUE) # tile_list(dash.last.pre, 1, User, FALSE)
    /\ tile_list(dash.tables, 1, User, FALSE) # {}

DraftEdits ==
    {"add_tile_to_draft", "update_tile_in_draft", "delete_tile_from_draft",
     "update_draft_layout", "update_draft_metadata", "delete_draft"}

\* The tile a draft edit is about, if it is about one.
touched_tile(last) ==
    IF last.op \in {"add_tile_to_draft", "update_tile_in_draft"} THEN {last.arg.id}
    ELSE IF last.op = "delete_tile_from_draft" THEN {last.arg}
    ELSE {}

\* C28: a draft edit, whether it succeeds or fails, leaves the published dashboard
\* rows and the published tiles as they were; a successful edit other than
\* delete_draft on a dashboard without a draft leaves a draft whose tiles, but for
\* the tile the edit is about, are the published tiles (ids, positions, configs)
\* and whose name and description, but for the fields update_draft_metadata sets,
\* are the published ones; an edit that fails leaves the tables unchanged, with no
\* seeded draft.
C28_DraftEditsFrame ==
    dash.last.op \in DraftEdits =>
        LET d == dash.last.dashboard_id
            pre == dash.last.pre
            T == dash.tables
            others(S) == {r \in S : r.tile_id \notin touched_tile(dash.last)}
        IN /\ {r \in T.dashboards : ~r.is_draft} = {r \in pre.dashboards : ~r.is_draft}
           /\ {r \in T.dashboard_tiles : ~r.is_draft}
                  = {r \in pre.dashboard_tiles : ~r.is_draft}
           /\ dash.last.status # 204 => T = pre
           /\ (/\ dash.last.status = 204
               /\ dash.last.op # "delete_draft"
               /\ dashboard_rows(pre, d, User, TRUE) = {}) =>
                  /\ Cardinality(dashboard_rows(T, d, User, TRUE)) = 1
                  /\ others(tile_list(T, d, User, TRUE))
                         = others(tile_list(pre, d, User, FALSE))
                  /\ \A m \in metadata_of(T, d, User, TRUE),
                        p \in metadata_of(pre, d, User, FALSE) :
                         IF dash.last.op = "update_draft_metadata"
                         THEN /\ "name" \notin dash.last.arg.fields_set
                                    => m.name = p.name
                              /\ "description" \notin dash.last.arg.fields_set
                                    => m.description = p.description
                         ELSE m = p

\* The first edit of a dashboard that has a published tile t1 adds the tile t2:
\* the draft holds a copy of t1 and the new tile.
C28_Witness ==
    /\ dash.last.op = "add_tile_to_draft"
    /\ dash.last.status = 204
    /\ dash.last.arg.id = "t2"
    /\ dashboard_rows(dash.last.pre, 1, User, TRUE) = {}
    /\ tile_list(dash.last.pre, 1, User, FALSE) # {}
    /\ Cardinality(tile_list(dash.tables, 1, User, TRUE)) = 2

\* C29 as claimed: every draft dashboard row and every draft tile has a published
\* dashboard row of the same id and user.
C29_AsClaimed ==
    /\ \A r \in dash.tables.dashboards :
           r.is_draft => dashboard_rows(dash.tables, r.id, r.user_id, FALSE) # {}
    /\ \A r \in dash.tables.dashboard_tiles :
           r.is_draft => dashboard_rows(dash.tables, r.dashboard_id, r.user_id, FALSE) # {}

(***************************************************************************)
(* Specification of concurrent add_tile_to_draft requests: each request is *)
(* one READ COMMITTED transaction whose statements interleave with those   *)
(* of the other open request.  dash.tables holds the committed rows; the   *)
(* rows a transaction has added and not committed are in its own record.   *)
(***************************************************************************)
ConcurrentTilePayloads == {Tile("t1", "y"), Tile("t2", "y"), Tile("t3", "y")}

\* The response of request t: the transaction is over, committed as tables.
AddTileResponse(t, status, tables) ==
    dash' = [dash EXCEPT !.tables = tables,
                         !.tx[t] = IdleRequest,
                         !.last = [op |-> "add_tile_to_draft", status |-> status,
                                   dashboard_id |-> dash.tx[t].dashboard_id,
                                   pre |-> dash.tables, out |-> None,
                                   arg |-> dash.tx[t].payload]]

\* The draft tiles the statements of request t see: the committed ones and the
\* ones the session itself has flushed.
visible_draft_tiles(t) ==
    tile_rows(dash.tables, dash.tx[t].dashboard_id, User, TRUE)
        \cup (IF dash.tx[t].flushed THEN dash.tx[t].seed.dashboard_tiles ELSE {})

\* session.begin(), _get_published_dashboard, _get_draft_dashboard and, without a
\* draft, _fetch_tiles and _seed_draft, whose rows stay pending in the session.
BeginAddTile(t) ==
    /\ dash.tx[t].pc = "idle"
    /\ dash.ops < MaxOps
    /\ \E d \in DashboardIds, payload \in ConcurrentTilePayloads :
          LET published == dashboard_rows(dash.tables, d, User, FALSE)
              seed == IF dashboard_rows(dash.tables, d, User, TRUE) # {}
                      THEN EmptyTables
                      ELSE seed_rows(CHOOSE r \in published : TRUE,
                                     fetch_tiles(dash.tables, d, User, FALSE), User)
          IN IF published = {}
             THEN dash' = [dash EXCEPT
                      !.ops = @ + 1,
                      !.last = [op |-> "add_tile_to_draft", status |-> 404,
                                dashboard_id |-> d, pre |-> dash.tables,
                                out |-> None, arg |-> payload]]
             ELSE dash' = [dash EXCEPT
                      !.ops = @ + 1,
                      !.tx[t] = [pc |-> "exists", dashboard_id |-> d,
                                 payload |-> payload, seed |-> seed,
                                 flushed |-> FALSE, position |-> 0, status |-> 0]]
    /\ UNCHANGED <<db, up, rd, hist, gr>>

\* The select of the tile id.  The session first flushes the pending seed: the
\* INSERT of the draft row waits while another transaction holds an uncommitted
\* row of the same key, and fails (IntegrityError, answered 503) when a committed
\* one exists.
ExistsQuery(t) ==
    LET tx == dash.tx[t]
        seeding == tx.seed.dashboards # {}
        flushed_tiles ==
            tile_rows(dash.tables, tx.dashboard_id, User, TRUE)
                \cup tx.seed.dashboard_tiles
    IN /\ tx.pc = "exists"
       /\ seeding =>
              \A u \in Slots \ {t} :
                  ~(/\ dash.tx[u].pc # "idle"
                    /\ dash.tx[u].flushed
                    /\ dash.tx[u].dashboard_id = tx.dashboard_id)
       /\ IF seeding /\ dashboard_rows(dash.tables, tx.dashboard_id, User, TRUE) # {}
          THEN AddTileResponse(t, 503, dash.tables)
          ELSE IF \E r \in flushed_tiles : r.tile_id = tx.payload.id
          THEN AddTileResponse(t, 409, dash.tables)
          ELSE dash' = [dash EXCEPT !.tx[t].pc = "max_position",
                                    !.tx[t].flushed = seeding]
       /\ UNCHANGED <<db, up, rd, hist, gr>>

\* select coalesce(max(position), -1) over the draft tiles
MaxPositionQuery(t) ==
    /\ dash.tx[t].pc = "max_position"
    /\ dash' = [dash EXCEPT !.tx[t].pc = "commit",
                            !.tx[t].position = next_position(visible_draft_tiles(t))]
    /\ UNCHANGED <<db, up, rd, hist, gr>>

\* The end of the session.begin() block: the flush inserts the tile, which fails
\* (IntegrityError, answered 503) when a committed tile has its key, and the
\* transaction commits.
CommitAddTile(t) ==
    LET tx == dash.tx[t]
        tile == [dashboard_id |-> tx.dashboard_id, user_id |-> User, is_draft |-> TRUE,
                 tile_id |-> tx.payload.id, position |-> tx.position,
                 config |-> tx.payload]
        seed == IF tx.flushed THEN tx.seed ELSE EmptyTables
    IN /\ tx.pc = "commit"
       /\ IF \E r \in tile_rows(dash.tables, tx.dashboard_id, User, TRUE) :
                 r.tile_id = tile.tile_id
          THEN AddTileResponse(t, 503, dash.tables)
          ELSE AddTileResponse(t, 204,
                   [dashboards |-> dash.tables.dashboards \cup seed.dashboards,
                    dashboard_tiles |->
                        dash.tables.dashboard_tiles \cup seed.dashboard_tiles
                            \cup {tile}])
       /\ UNCHANGED <<db, up, rd, hist, gr>>

NextDashboardsConcurrent ==
    \/ CreateDashboard
    \/ \E t \in Slots : BeginAddTile(t)
    \/ \E t \in Slots : ExistsQuery(t)
    \/ \E t \in Slots : MaxPositionQuery(t)
    \/ \E t \in Slots : CommitAddTile(t)

SpecDashboardsConcurrent == Init /\ [][NextDashboardsConcurrent]_vars

\* C30 as claimed: whatever the interleaving of the add_tile_to_draft requests,
\* the draft tiles of a dashboard have pairwise distinct tile ids and pairwise
\* distinct positions, a tile that was added is placed after all the tiles that
\* existed, and a request whose tile id exists in the draft is answered 409 and
\* leaves the draft unchanged.
C30_AsClaimed ==
    /\ \A d \in DashboardIds :
           \A r1, r2 \in tile_rows(dash.tables, d, User, TRUE) :
               r1 # r2 => (r1.tile_id # r2.tile_id /\ r1.position # r2.position)
    /\ dash.last.op = "add_tile_to_draft" =>
           LET d == dash.last.dashboard_id
               before == tile_rows(dash.last.pre, d, User, TRUE)
               after == tile_rows(dash.tables, d, User, TRUE)
           IN /\ dash.last.status = 204 =>
                     \A new \in after \ before : \A r \in before :
                         /\ new.tile_id = dash.last.arg.id
                         /\ new.position > r.position
              /\ (\E r \in before : r.tile_id = dash.last.arg.id) =>
                     (dash.last.status = 409 /\ after = before)

\* The part of C30 about tile ids alone, which the primary key enforces.
DraftTileIdsDistinct ==
    \A d \in DashboardIds :
        \A r1, r2 \in tile_rows(dash.tables, d, User, TRUE) :
            r1 # r2 => r1.tile_id # r2.tile_id

====
